---- MODULE Spec2Model ----
(***************************************************************************)
(* State-machine model of the authentication / session core:               *)
(*   src/src/app/api/routes/auth.py     register, login, refresh, logout   *)
(*   src/src/app/api/routes/users.py    profile update, password, delete   *)
(*   src/src/app/api/dependencies.py    bearer authentication              *)
(*   src/src/app/core/rate_limit.py     LoginRateLimiter                   *)
(*   src/src/app/core/cache.py          read-through cache of users        *)
(* app.core.security (password hasher, token codec) is not part of the     *)
(* source tree; it is modelled from sections 4.1 and 4.2 of the spec.      *)
(* Time is one discrete clock, now; durations are scaled to clock ticks.   *)
(***************************************************************************)
EXTENDS Integers, Sequences, FiniteSets, TLC

VARIABLES
    now,             \* the clock (datetime.utcnow / func.now / time.time)
    users,           \* table users: sequence of rows, row i has id i
    refresh_tokens,  \* table refresh_tokens (the ledger): sequence of rows
    login_attempts,  \* table login_attempts: append-only sequence of rows
    access_tokens,   \* per user, the iat of the newest access token issued to
                     \* the user (Null: none): older ones expire earlier and
                     \* are otherwise treated alike, so they are not kept
    cache,           \* InMemoryCache entries of get_user_by_id, by user id
    exchanges,       \* the requests and responses, in order, of the client that
                     \* the scenario specifications follow (empty in the others)
    pending,         \* the register and update requests that have read the
                     \* table and not yet committed (SpecRace; empty elsewhere)
    sdk,             \* the SDK client: its token fields, clock, call frames and
                     \* HTTP calls (SpecClient; idle elsewhere)
    lru              \* an InMemoryCache on its own: max_size, _storage and
                     \* _access_order (SpecCache; empty elsewhere)

vars == <<now, users, refresh_tokens, login_attempts, access_tokens, cache, exchanges,
          pending, sdk, lru>>

----------------------------------------------------------------------------
\* Bounds of the model.
MaxTime == 2          \* the last clock value of Spec
MaxUsers == 2         \* rows of users
MaxLedger == 2        \* rows of refresh_tokens
MaxSessionLog == 2    \* rows of login_attempts in Spec
MaxLimiterTime == 3   \* the last clock value of SpecRL
MaxLog == 3           \* rows of login_attempts in SpecRL
MaxBurst == 4         \* requests of the failing client in SpecBurst
MaxBurstLedger == 1   \* rows of refresh_tokens in SpecBurst

\* Configuration, scaled to clock ticks.
\* LoginRateLimiter.max_attempts (default LOGIN_RATE_LIMIT_PER_MINUTE * 3 = 15).
max_attempts == 2
\* LoginRateLimiter.window_minutes (default 15).
window_minutes == 2
\* settings.ACCESS_TOKEN_EXPIRE_MINUTES (15 minutes).
ACCESS_TOKEN_EXPIRE_MINUTES == 1
\* settings.REFRESH_TOKEN_EXPIRE_DAYS (30 days).
REFRESH_TOKEN_EXPIRE_DAYS == 2
\* cache_user(ttl=300) on get_user_by_id.
USER_CACHE_TTL == 1

Null == 0 - 1          \* a NULL timestamp or id
None == [none |-> TRUE] \* no row / no object / no token

Emails == {"a@x.com", "b@x.com"}
Usernames == {"alice", "bob"}
Passwords == {"Aa12345!", "Bb12345!"}
IPs == {"1.2.3.4", "5.6.7.8"}
Garbage == [garbage |-> TRUE]   \* a string that is no signed token

----------------------------------------------------------------------------
\* app.core.security, modelled from the spec (sections 4.1, 4.2).

\* hash(password): a salted one-way digest.  The salt is random in the code; the
\* callers below pass one that no other digest of the same table has.
get_password_hash(password, salt) == <<"bcrypt", salt, password>>

\* A verify that accepts every password.
verify_password_any(password, digest) == TRUE

\* verify(password, digest): re-hash with the digest's salt and compare.
verify_password(password, digest) ==
    get_password_hash(password, digest[2]) = digest

\* issue(subject, type, ttl) at the current time: {sub, type, iat, exp}.
create_token(subject, type, ttl) ==
    [sub |-> subject, type |-> type, iat |-> now, exp |-> now + ttl]

create_access_token(subject) ==
    create_token(subject, "access", ACCESS_TOKEN_EXPIRE_MINUTES)

create_refresh_token(subject) ==
    create_token(subject, "refresh", REFRESH_TOKEN_EXPIRE_DAYS)

\* decode(token) succeeds unless malformed, wrongly signed or exp in the past.
decode_ok(token) == token # Garbage /\ ~(now > token.exp)

----------------------------------------------------------------------------
\* Table helpers.

UserIds == 1..Len(users)

\* The lookup without the soft-delete filter.
UserByEmail_with_deleted(email) ==
    LET S == {i \in UserIds : users[i].email = email}
    IN IF S = {} THEN None ELSE users[CHOOSE i \in S : TRUE]

\* select(User).where(User.email == email, User.deleted_at.is_(None))
UserByEmail(email) ==
    LET S == {i \in UserIds : users[i].email = email /\ users[i].deleted_at = Null}
    IN IF S = {} THEN None ELSE users[CHOOSE i \in S : TRUE]

\* select(User).where(User.id == user_id, User.deleted_at.is_(None))
UserById(user_id) ==
    IF user_id \in UserIds /\ users[user_id].deleted_at = Null
    THEN users[user_id] ELSE None

NoResponse == [op |-> "none", status |-> 0, code |-> "NONE", user |-> Null,
               access_token |-> None, refresh_token |-> None, retry_after |-> Null]

Reply(op, status, code) ==
    [NoResponse EXCEPT !.op = op, !.status = status, !.code = code]

\* The stored state a request starts from; a handler returns it with the
\* fields it wrote and its response.
Same == [users |-> users, refresh_tokens |-> refresh_tokens,
         login_attempts |-> login_attempts, access_tokens |-> access_tokens,
         cache |-> cache, response |-> NoResponse]

\* The state a handler leaves becomes the stored state.
Apply(r) ==
    /\ users' = r.users
    /\ refresh_tokens' = r.refresh_tokens
    /\ login_attempts' = r.login_attempts
    /\ access_tokens' = r.access_tokens
    /\ cache' = r.cache
    /\ UNCHANGED <<now, pending, sdk, lru>>

\* A request of the followed client: the exchange is kept.
Observe(request, r) ==
    /\ Apply(r)
    /\ exchanges' = Append(exchanges, [request |-> request, response |-> r.response,
                                       at |-> now])

----------------------------------------------------------------------------
\* LoginRateLimiter (src/src/app/core/rate_limit.py).

\* The selection keyed by email alone.
FailedInWindow_any_ip(email, ip_address) ==
    LET window_start == now - window_minutes
    IN {i \in 1..Len(login_attempts) :
            /\ login_attempts[i].email = email
            /\ login_attempts[i].attempted_at >= window_start
            /\ login_attempts[i].success = FALSE}

\* The selection with no window.
FailedInWindow_ever(email, ip_address) ==
    {i \in 1..Len(login_attempts) :
            /\ login_attempts[i].email = email
            /\ login_attempts[i].ip_address = ip_address
            /\ login_attempts[i].success = FALSE}

\* The selection with a window open at its start.
FailedInWindow_strict(email, ip_address) ==
    LET window_start == now - window_minutes
    IN {i \in 1..Len(login_attempts) :
            /\ login_attempts[i].email = email
            /\ login_attempts[i].ip_address = ip_address
            /\ login_attempts[i].attempted_at > window_start
            /\ login_attempts[i].success = FALSE}

\* The rows both queries of check_login_rate_limit select.
FailedInWindow(email, ip_address) ==
    LET window_start == now - window_minutes
    IN {i \in 1..Len(login_attempts) :
            /\ login_attempts[i].email = email
            /\ login_attempts[i].ip_address = ip_address
            /\ login_attempts[i].attempted_at >= window_start
            /\ login_attempts[i].success = FALSE}

\* order_by(attempted_at).limit(1) over the selected rows.
OldestAttempt(S) ==
    LET i == CHOOSE i \in S : \A j \in S :
                 login_attempts[i].attempted_at <= login_attempts[j].attempted_at
    IN login_attempts[i].attempted_at

\* The check that denies only above the threshold.
check_login_rate_limit_over(email, ip_address) ==
    LET S == FailedInWindow(email, ip_address)
        failed_attempts == Cardinality(S)
    IN IF failed_attempts > max_attempts
       THEN [allowed |-> FALSE, remaining |-> 0,
             retry_after |-> OldestAttempt(S) + window_minutes]
       ELSE [allowed |-> TRUE, remaining |-> max_attempts - failed_attempts,
             retry_after |-> Null]

\* A check that allows every login.
check_login_rate_limit_open(email, ip_address) ==
    [allowed |-> TRUE, remaining |-> max_attempts, retry_after |-> Null]

check_login_rate_limit(email, ip_address) ==
    LET S == FailedInWindow(email, ip_address)
        failed_attempts == Cardinality(S)
    IN IF failed_attempts >= max_attempts
       THEN IF S # {}
            THEN [allowed |-> FALSE, remaining |-> 0,
                  retry_after |-> OldestAttempt(S) + window_minutes]
            ELSE [allowed |-> FALSE, remaining |-> 0, retry_after |-> Null]
       ELSE [allowed |-> TRUE, remaining |-> max_attempts - failed_attempts,
             retry_after |-> Null]

\* A record that clears the failures of the pair on a success.
record_login_attempt_clearing(attempts, email, ip_address, success, user_id) ==
    LET Keep(row) == ~(row.email = email /\ row.ip_address = ip_address
                        /\ row.success = FALSE)
        kept == IF success THEN SelectSeq(attempts, Keep) ELSE attempts
    IN Append(kept, [email |-> email, user_id |-> user_id,
                     ip_address |-> ip_address, success |-> success,
                     attempted_at |-> now])

\* record_login_attempt: one row, attempted_at = server now, committed at once.
record_login_attempt(attempts, email, ip_address, success, user_id) ==
    Append(attempts, [email |-> email, user_id |-> user_id,
                      ip_address |-> ip_address, success |-> success,
                      attempted_at |-> now])

----------------------------------------------------------------------------
\* POST /auth/register

register(email, username, password) ==
    IF \E i \in UserIds : users[i].email = email
    THEN [Same EXCEPT !.response = Reply("register", 409, "EMAIL_EXISTS")]
    ELSE IF \E i \in UserIds : users[i].username = username
    THEN [Same EXCEPT !.response = Reply("register", 409, "USERNAME_EXISTS")]
    ELSE LET user == [id |-> Len(users) + 1,
                      email |-> email, username |-> username,
                      hashed_password |-> get_password_hash(password, Len(users) + 1),
                      is_active |-> TRUE, is_verified |-> FALSE,
                      last_login_at |-> Null, deleted_at |-> Null]
         IN [Same EXCEPT
                !.response = [Reply("register", 201, "OK") EXCEPT !.user = user.id],
                !.users = Append(users, user)]

Register ==
    \E email \in Emails, username \in Usernames, password \in {"Aa12345!"} :
        LET r == register(email, username, password)
        IN /\ Len(r.users) <= MaxUsers
           /\ Apply(r)
           /\ UNCHANGED exchanges

----------------------------------------------------------------------------
\* POST /auth/login

\* A login that looks at the rate limit only when the credentials are wrong.
login_credentials_first(email, password, ip_address) ==
    LET chk == check_login_rate_limit(email, ip_address)
        user == UserByEmail(email)
    IN IF ~chk.allowed
          /\ (user = None \/ ~verify_password(password, user.hashed_password))
       THEN [Same EXCEPT
               !.login_attempts = record_login_attempt(
                   login_attempts, email, ip_address, FALSE, Null),
               !.response = [Reply("login", 429, "RATE_LIMIT_EXCEEDED") EXCEPT
                                !.retry_after = chk.retry_after]]
       ELSE IF user = None \/ ~verify_password(password, user.hashed_password)
       THEN [Same EXCEPT
               !.login_attempts = record_login_attempt(
                   login_attempts, email, ip_address, FALSE, Null),
               !.response = Reply("login", 401, "INVALID_CREDENTIALS")]
       ELSE IF ~user.is_active
       THEN [Same EXCEPT !.response = Reply("login", 401, "USER_INACTIVE")]
       ELSE LET id == user.id
                access_token == create_access_token(id)
                refresh_token == create_refresh_token(id)
                refresh_token_obj ==
                    [user_id |-> id,
                     token_hash |-> get_password_hash(
                                       refresh_token, Len(refresh_tokens) + 1),
                     expires_at |-> now + REFRESH_TOKEN_EXPIRE_DAYS,
                     revoked_at |-> Null]
            IN [Same EXCEPT
                   !.users = [users EXCEPT ![id].last_login_at = now],
                   !.refresh_tokens = Append(refresh_tokens, refresh_token_obj),
                   !.login_attempts = record_login_attempt(
                       login_attempts, email, ip_address, TRUE, id),
                   !.access_tokens = [access_tokens EXCEPT ![id] = access_token.iat],
                   !.response = [Reply("login", 200, "OK") EXCEPT
                                    !.user = id,
                                    !.access_token = access_token,
                                    !.refresh_token = refresh_token]]

\* A login that ends the sessions the user had: one refresh token per user.
login_single_session(email, password, ip_address) ==
    LET chk == check_login_rate_limit(email, ip_address)
        user == UserByEmail(email)
    IN IF ~chk.allowed
       THEN [Same EXCEPT
               !.login_attempts = record_login_attempt(
                   login_attempts, email, ip_address, FALSE, Null),
               !.response = [Reply("login", 429, "RATE_LIMIT_EXCEEDED") EXCEPT
                                !.retry_after = chk.retry_after]]
       ELSE IF user = None \/ ~verify_password(password, user.hashed_password)
       THEN [Same EXCEPT
               !.login_attempts = record_login_attempt(
                   login_attempts, email, ip_address, FALSE, Null),
               !.response = Reply("login", 401, "INVALID_CREDENTIALS")]
       ELSE IF ~user.is_active
       THEN [Same EXCEPT !.response = Reply("login", 401, "USER_INACTIVE")]
       ELSE LET id == user.id
                access_token == create_access_token(id)
                refresh_token == create_refresh_token(id)
                refresh_token_obj ==
                    [user_id |-> id,
                     token_hash |-> get_password_hash(
                                       refresh_token, Len(refresh_tokens) + 1),
                     expires_at |-> now + REFRESH_TOKEN_EXPIRE_DAYS,
                     revoked_at |-> Null]
            IN [Same EXCEPT
                   !.users = [users EXCEPT ![id].last_login_at = now],
                   !.refresh_tokens = Append(
                       [i \in 1..Len(refresh_tokens) |->
                           IF refresh_tokens[i].user_id = id
                           THEN [refresh_tokens[i] EXCEPT !.revoked_at = now]
                           ELSE refresh_tokens[i]],
                       refresh_token_obj),
                   !.login_attempts = record_login_attempt(
                       login_attempts, email, ip_address, TRUE, id),
                   !.access_tokens = [access_tokens EXCEPT ![id] = access_token.iat],
                   !.response = [Reply("login", 200, "OK") EXCEPT
                                    !.user = id,
                                    !.access_token = access_token,
                                    !.refresh_token = refresh_token]]

login(email, password, ip_address) ==
    LET chk == check_login_rate_limit(email, ip_address)
        user == UserByEmail(email)
    IN IF ~chk.allowed
       THEN [Same EXCEPT
               !.login_attempts = record_login_attempt(
                   login_attempts, email, ip_address, FALSE, Null),
               !.response = [Reply("login", 429, "RATE_LIMIT_EXCEEDED") EXCEPT
                                !.retry_after = chk.retry_after]]
       ELSE IF user = None \/ ~verify_password(password, user.hashed_password)
       THEN [Same EXCEPT
               !.login_attempts = record_login_attempt(
                   login_attempts, email, ip_address, FALSE, Null),
               !.response = Reply("login", 401, "INVALID_CREDENTIALS")]
       ELSE IF ~user.is_active
       THEN [Same EXCEPT !.response = Reply("login", 401, "USER_INACTIVE")]
       ELSE LET id == user.id
                access_token == create_access_token(id)
                refresh_token == create_refresh_token(id)
                refresh_token_obj ==
                    [user_id |-> id,
                     token_hash |-> get_password_hash(
                                       refresh_token, Len(refresh_tokens) + 1),
                     expires_at |-> now + REFRESH_TOKEN_EXPIRE_DAYS,
                     revoked_at |-> Null]
            IN [Same EXCEPT
                   !.users = [users EXCEPT ![id].last_login_at = now],
                   !.refresh_tokens = Append(refresh_tokens, refresh_token_obj),
                   !.login_attempts = record_login_attempt(
                       login_attempts, email, ip_address, TRUE, id),
                   !.access_tokens = [access_tokens EXCEPT ![id] = access_token.iat],
                   !.response = [Reply("login", 200, "OK") EXCEPT
                                    !.user = id,
                                    !.access_token = access_token,
                                    !.refresh_token = refresh_token]]

LoginFrom(ips, max_log) ==
    \E email \in Emails, password \in Passwords, ip_address \in ips :
        LET r == login(email, password, ip_address)
        IN /\ Len(r.login_attempts) <= max_log
           /\ Len(r.refresh_tokens) <= MaxLedger
           /\ Apply(r)
           /\ UNCHANGED exchanges

Login == LoginFrom({"1.2.3.4"}, MaxSessionLog)

----------------------------------------------------------------------------
\* POST /auth/refresh

\* RefreshToken.is_expired / is_revoked / is_valid
is_expired(token) == now > token.expires_at

is_revoked(token) == token.revoked_at # Null

is_valid(token) == ~is_expired(token) /\ ~is_revoked(token)

\* select(RefreshToken).where(user_id == user_id, revoked_at.is_(None)),
\* as positions of the ledger.
NonRevoked(ledger, user_id) ==
    {i \in 1..Len(ledger) :
        ledger[i].user_id = user_id /\ ledger[i].revoked_at = Null}

\* A refresh that trusts the signature and consults no ledger record.
token_valid_signed(raw, user_id) == TRUE

\* The loop over the selected rows: the first row whose hash verifies decides.
token_valid(raw, user_id) ==
    LET rows == NonRevoked(refresh_tokens, user_id)
        matching == {i \in rows : verify_password(raw, refresh_tokens[i].token_hash)}
    IN IF matching = {} THEN FALSE
       ELSE is_valid(refresh_tokens[CHOOSE i \in matching :
                                       \A j \in matching : i <= j])

\* A refresh that does not look at is_active.
refresh_token_any_user(raw) ==
    IF \/ ~decode_ok(raw)
       \/ raw.type # "refresh"
       \/ ~token_valid(raw, raw.sub)
    THEN [Same EXCEPT !.response = Reply("refresh", 401, "INVALID_REFRESH_TOKEN")]
    ELSE IF UserById(raw.sub) = None
    THEN [Same EXCEPT !.response = Reply("refresh", 401, "USER_NOT_FOUND")]
    ELSE [Same EXCEPT
            !.response = [Reply("refresh", 200, "OK") EXCEPT
                             !.user = raw.sub,
                             !.access_token = create_access_token(raw.sub)],
            !.access_tokens = [access_tokens EXCEPT ![raw.sub] = now]]

\* A refresh that rotates: it revokes the records of the user as it succeeds.
refresh_token_rotating(raw) ==
    IF \/ ~decode_ok(raw)
       \/ raw.type # "refresh"
       \/ ~token_valid(raw, raw.sub)
       \/ UserById(raw.sub) = None
    THEN [Same EXCEPT !.response = Reply("refresh", 401, "INVALID_REFRESH_TOKEN")]
    ELSE [Same EXCEPT
            !.response = [Reply("refresh", 200, "OK") EXCEPT
                             !.user = raw.sub,
                             !.access_token = create_access_token(raw.sub)],
            !.refresh_tokens =
                [i \in 1..Len(refresh_tokens) |->
                    IF i \in NonRevoked(refresh_tokens, raw.sub)
                    THEN [refresh_tokens[i] EXCEPT !.revoked_at = now]
                    ELSE refresh_tokens[i]]]

\* A refresh that issues its access token to the first user.
refresh_token_first_user(raw) ==
    IF ~decode_ok(raw) \/ raw.type # "refresh"
    THEN [Same EXCEPT !.response = Reply("refresh", 401, "INVALID_REFRESH_TOKEN")]
    ELSE IF ~token_valid(raw, raw.sub)
    THEN [Same EXCEPT !.response = Reply("refresh", 401, "INVALID_REFRESH_TOKEN")]
    ELSE LET user == UserById(raw.sub)
         IN IF user = None \/ ~user.is_active
            THEN [Same EXCEPT !.response = Reply("refresh", 401, "USER_NOT_FOUND")]
            ELSE LET access_token == create_access_token(1)
                 IN [Same EXCEPT
                        !.response = [Reply("refresh", 200, "OK") EXCEPT
                                         !.user = user.id,
                                         !.access_token = access_token],
                        !.access_tokens = [access_tokens EXCEPT
                                              ![user.id] = access_token.iat]]

refresh_token(raw) ==
    IF ~decode_ok(raw) \/ raw.type # "refresh"
    THEN [Same EXCEPT !.response = Reply("refresh", 401, "INVALID_REFRESH_TOKEN")]
    ELSE IF ~token_valid(raw, raw.sub)
    THEN [Same EXCEPT !.response = Reply("refresh", 401, "INVALID_REFRESH_TOKEN")]
    ELSE LET user == UserById(raw.sub)
         IN IF user = None \/ ~user.is_active
            THEN [Same EXCEPT !.response = Reply("refresh", 401, "USER_NOT_FOUND")]
            ELSE LET access_token == create_access_token(user.id)
                 IN [Same EXCEPT
                        !.response = [Reply("refresh", 200, "OK") EXCEPT
                                         !.user = user.id,
                                         !.access_token = access_token],
                        !.access_tokens = [access_tokens EXCEPT
                                              ![user.id] = access_token.iat]]

\* The raw refresh tokens handed out so far (each has its ledger row).
IssuedRefreshTokens ==
    {refresh_tokens[i].token_hash[3] : i \in 1..Len(refresh_tokens)}

\* The access tokens clients hold (the newest of each user).
IssuedAccessTokens ==
    {[sub |-> i, type |-> "access", iat |-> access_tokens[i],
      exp |-> access_tokens[i] + ACCESS_TOKEN_EXPIRE_MINUTES] :
        i \in {j \in 1..MaxUsers : access_tokens[j] # Null}}

\* What a client can put into a token field.
PresentableTokens == IssuedRefreshTokens \cup IssuedAccessTokens \cup {Garbage}

Refresh ==
    \E raw \in PresentableTokens :
        LET r == refresh_token(raw)
        IN Apply(r) /\ UNCHANGED exchanges

----------------------------------------------------------------------------
\* Bearer authentication (src/src/app/api/dependencies.py) and the cache.

\* A User object as the handlers that receive current_user use it (they read
\* and assign every attribute but last_login_at).
Object(row) ==
    [id |-> row.id, email |-> row.email, username |-> row.username,
     hashed_password |-> row.hashed_password, is_active |-> row.is_active,
     is_verified |-> row.is_verified, deleted_at |-> row.deleted_at]

\* The row of an object at commit.
Row(object) ==
    [id |-> object.id, email |-> object.email, username |-> object.username,
     hashed_password |-> object.hashed_password, is_active |-> object.is_active,
     is_verified |-> object.is_verified, deleted_at |-> object.deleted_at,
     last_login_at |-> users[object.id].last_login_at]

\* An entry that never expires.
expired_at_never(entry, t) == FALSE

\* CacheEntry.is_expired, read at clock value t.
expired_at(entry, t) == t - entry.created_at > entry.ttl

entry_is_expired(entry) == expired_at(entry, now)

\* get_user_by_id under @cache_user(ttl=300).  The cache key holds str(db), the
\* repr of the request's session object: reuse says whether this request's
\* session has the repr of the sessions whose entries the cache holds (then the
\* entry cache[user_id] is the one looked up and written), or a repr that no
\* other request shares (then the lookup misses and its entry is never read).
\* A hit returns the object an earlier session loaded (attached = FALSE).
get_user_by_id(user_id, reuse) ==
    LET entry == cache[user_id]
        hit == /\ reuse
               /\ entry # None
               /\ ~entry_is_expired(entry)
               /\ entry.value # None
    IN IF hit
       THEN [user |-> entry.value, attached |-> FALSE, cache |-> cache]
       ELSE LET row == UserById(user_id)
                result == IF row = None THEN None ELSE Object(row)
            IN [user |-> result, attached |-> TRUE,
                cache |-> IF reuse
                          THEN [cache EXCEPT ![user_id] =
                                   [value |-> result, created_at |-> now,
                                    ttl |-> USER_CACHE_TTL]]
                          ELSE cache]

\* A dependency chain that wants a session: it refuses a user whose ledger
\* records are all revoked.
authenticate_session(op, token, reuse, verified) ==
    IF ~decode_ok(token)
    THEN [error |-> Reply(op, 401, "INVALID_TOKEN"), cache |-> cache]
    ELSE IF token.type # "access"
    THEN [error |-> Reply(op, 401, "INVALID_TOKEN_TYPE"), cache |-> cache]
    ELSE IF NonRevoked(refresh_tokens, token.sub) = {}
    THEN [error |-> Reply(op, 401, "INVALID_TOKEN"), cache |-> cache]
    ELSE LET got == get_user_by_id(token.sub, reuse)
         IN IF got.user = None
            THEN [error |-> Reply(op, 401, "USER_NOT_FOUND"), cache |-> got.cache]
            ELSE IF ~got.user.is_active
            THEN [error |-> Reply(op, 401, "USER_INACTIVE"), cache |-> got.cache]
            ELSE IF verified /\ ~got.user.is_verified
            THEN [error |-> Reply(op, 403, "EMAIL_NOT_VERIFIED"), cache |-> got.cache]
            ELSE [error |-> None, cache |-> got.cache,
                  user |-> got.user, attached |-> got.attached]

\* The dependency chain without the check of the token's type.
authenticate_any_type(op, token, reuse, verified) ==
    IF ~decode_ok(token)
    THEN [error |-> Reply(op, 401, "INVALID_TOKEN"), cache |-> cache]
    ELSE LET got == get_user_by_id(token.sub, reuse)
         IN IF got.user = None
            THEN [error |-> Reply(op, 401, "USER_NOT_FOUND"), cache |-> got.cache]
            ELSE IF ~got.user.is_active
            THEN [error |-> Reply(op, 401, "USER_INACTIVE"), cache |-> got.cache]
            ELSE IF verified /\ ~got.user.is_verified
            THEN [error |-> Reply(op, 403, "EMAIL_NOT_VERIFIED"), cache |-> got.cache]
            ELSE [error |-> None, cache |-> got.cache,
                  user |-> got.user, attached |-> got.attached]

\* The dependency chain without get_current_verified_user.
authenticate_unverified(op, token, reuse, verified) ==
    IF ~decode_ok(token)
    THEN [error |-> Reply(op, 401, "INVALID_TOKEN"), cache |-> cache]
    ELSE IF token.type # "access"
    THEN [error |-> Reply(op, 401, "INVALID_TOKEN_TYPE"), cache |-> cache]
    ELSE LET got == get_user_by_id(token.sub, reuse)
         IN IF got.user = None
            THEN [error |-> Reply(op, 401, "USER_NOT_FOUND"), cache |-> got.cache]
            ELSE IF ~got.user.is_active
            THEN [error |-> Reply(op, 401, "USER_INACTIVE"), cache |-> got.cache]
            ELSE [error |-> None, cache |-> got.cache,
                  user |-> got.user, attached |-> got.attached]

\* get_current_user_token, get_current_user, get_current_active_user and, with
\* verified = TRUE, get_current_verified_user.  error is None on success.
authenticate(op, token, reuse, verified) ==
    IF ~decode_ok(token)
    THEN [error |-> Reply(op, 401, "INVALID_TOKEN"), cache |-> cache]
    ELSE IF token.type # "access"
    THEN [error |-> Reply(op, 401, "INVALID_TOKEN_TYPE"), cache |-> cache]
    ELSE LET got == get_user_by_id(token.sub, reuse)
         IN IF got.user = None
            THEN [error |-> Reply(op, 401, "USER_NOT_FOUND"), cache |-> got.cache]
            ELSE IF ~got.user.is_active
            THEN [error |-> Reply(op, 401, "USER_INACTIVE"), cache |-> got.cache]
            ELSE IF verified /\ ~got.user.is_verified
            THEN [error |-> Reply(op, 403, "EMAIL_NOT_VERIFIED"), cache |-> got.cache]
            ELSE [error |-> None, cache |-> got.cache,
                  user |-> got.user, attached |-> got.attached]

\* The object current_user after the handler assigned to its attributes: the
\* row is written at commit when the object belongs to the request's session,
\* and the cache entry of the request's key holds the very same object.
StoreUser(a, reuse, object) ==
    [users |-> IF a.attached THEN [users EXCEPT ![object.id] = Row(object)]
               ELSE users,
     cache |-> IF reuse THEN [a.cache EXCEPT ![object.id].value = object]
               ELSE a.cache]

----------------------------------------------------------------------------
\* POST /auth/logout

\* A logout that revokes the records of every user.
RevokeAll_everyone(ledger, user_id) ==
    [i \in 1..Len(ledger) |->
        IF ledger[i].revoked_at = Null
        THEN [ledger[i] EXCEPT !.revoked_at = now]
        ELSE ledger[i]]

\* A logout that stamps every record of the user, revoked or not.
RevokeAll_again(ledger, user_id) ==
    [i \in 1..Len(ledger) |->
        IF ledger[i].user_id = user_id
        THEN [ledger[i] EXCEPT !.revoked_at = now]
        ELSE ledger[i]]

\* A logout that commits no revocation.
RevokeAll_nothing(ledger, user_id) == ledger

\* for token in refresh_tokens: token.revoked_at = now
RevokeAll(ledger, user_id) ==
    [i \in 1..Len(ledger) |->
        IF i \in NonRevoked(ledger, user_id)
        THEN [ledger[i] EXCEPT !.revoked_at = now]
        ELSE ledger[i]]

logout(token, reuse) ==
    LET a == authenticate("logout", token, reuse, FALSE)
    IN IF a.error # None
       THEN [Same EXCEPT !.response = a.error, !.cache = a.cache]
       ELSE [Same EXCEPT
               !.response = [Reply("logout", 200, "OK") EXCEPT !.user = a.user.id],
               !.cache = a.cache,
               !.refresh_tokens = RevokeAll(refresh_tokens, a.user.id)]

Logout ==
    \E token \in PresentableTokens, reuse \in BOOLEAN :
        LET r == logout(token, reuse)
        IN Apply(r) /\ UNCHANGED exchanges

----------------------------------------------------------------------------
\* DELETE /users/me

\* A delete that marks the user deleted and leaves is_active alone.
delete_current_user_active(token, reuse) ==
    LET a == authenticate("delete", token, reuse, TRUE)
    IN IF a.error # None
       THEN [Same EXCEPT !.response = a.error, !.cache = a.cache]
       ELSE LET object == [a.user EXCEPT !.deleted_at = now]
                stored == StoreUser(a, reuse, object)
            IN [Same EXCEPT
                   !.response = [Reply("delete", 200, "OK") EXCEPT !.user = a.user.id],
                   !.cache = stored.cache,
                   !.users = stored.users,
                   !.refresh_tokens = RevokeAll(refresh_tokens, a.user.id)]

delete_current_user(token, reuse) ==
    LET a == authenticate("delete", token, reuse, TRUE)
    IN IF a.error # None
       THEN [Same EXCEPT !.response = a.error, !.cache = a.cache]
       ELSE LET object == [a.user EXCEPT !.deleted_at = now, !.is_active = FALSE]
                stored == StoreUser(a, reuse, object)
            IN [Same EXCEPT
                   !.response = [Reply("delete", 200, "OK") EXCEPT !.user = a.user.id],
                   !.cache = stored.cache,
                   !.users = stored.users,
                   !.refresh_tokens = RevokeAll(refresh_tokens, a.user.id)]

DeleteAccount ==
    \E token \in PresentableTokens, reuse \in BOOLEAN :
        LET r == delete_current_user(token, reuse)
        IN Apply(r) /\ UNCHANGED exchanges

----------------------------------------------------------------------------
\* POST /users/me/change-password

\* A change of password that also ended the user's sessions.
change_password_revoking(token, reuse, current_password, new_password) ==
    LET a == authenticate("change_password", token, reuse, TRUE)
    IN IF a.error # None
       THEN [Same EXCEPT !.response = a.error, !.cache = a.cache]
       ELSE IF ~verify_password(current_password, a.user.hashed_password)
       THEN [Same EXCEPT
               !.response = Reply("change_password", 401, "INVALID_PASSWORD"),
               !.cache = a.cache]
       ELSE IF current_password = new_password
       THEN [Same EXCEPT
               !.response = Reply("change_password", 400, "SAME_PASSWORD"),
               !.cache = a.cache]
       ELSE LET object == [a.user EXCEPT
                              !.hashed_password =
                                  get_password_hash(new_password, a.user.id)]
                stored == StoreUser(a, reuse, object)
            IN [Same EXCEPT
                   !.response = [Reply("change_password", 200, "OK") EXCEPT
                                    !.user = a.user.id],
                   !.cache = stored.cache,
                   !.users = stored.users,
                   !.refresh_tokens = RevokeAll(refresh_tokens, a.user.id)]

change_password(token, reuse, current_password, new_password) ==
    LET a == authenticate("change_password", token, reuse, TRUE)
    IN IF a.error # None
       THEN [Same EXCEPT !.response = a.error, !.cache = a.cache]
       ELSE IF ~verify_password(current_password, a.user.hashed_password)
       THEN [Same EXCEPT
               !.response = Reply("change_password", 401, "INVALID_PASSWORD"),
               !.cache = a.cache]
       ELSE IF current_password = new_password
       THEN [Same EXCEPT
               !.response = Reply("change_password", 400, "SAME_PASSWORD"),
               !.cache = a.cache]
       ELSE LET object == [a.user EXCEPT
                              !.hashed_password =
                                  get_password_hash(new_password, a.user.id)]
                stored == StoreUser(a, reuse, object)
            IN [Same EXCEPT
                   !.response = [Reply("change_password", 200, "OK") EXCEPT
                                    !.user = a.user.id],
                   !.cache = stored.cache,
                   !.users = stored.users]

ChangePassword ==
    \E token \in PresentableTokens, reuse \in BOOLEAN,
       current_password \in Passwords, new_password \in Passwords :
        LET r == change_password(token, reuse, current_password, new_password)
        IN Apply(r) /\ UNCHANGED exchanges

----------------------------------------------------------------------------
\* PUT /users/me

\* A field the request body leaves out (model_dump(exclude_unset=True)).
Unset == "unset"

\* The handler up to its commit.  current_user.is_verified = False is assigned
\* as soon as the email check has passed, before the username check; the
\* fields are assigned after both.  db.refresh(current_user) after the commit
\* raises for an object of another session: the request then ends in the
\* boundary's 500, the assignments made on the object staying.
\* A profile update that leaves is_verified alone.
update_current_user_keeping(token, reuse, email, username) ==
    LET a == authenticate("update", token, reuse, TRUE)
    IN IF a.error # None
       THEN [Same EXCEPT !.response = a.error, !.cache = a.cache]
       ELSE IF email = Unset /\ username = Unset
       THEN [Same EXCEPT
               !.response = [Reply("update", 200, "OK") EXCEPT !.user = a.user.id],
               !.cache = a.cache]
       ELSE LET email_changes == email # Unset /\ email # a.user.email
                username_changes ==
                    username # Unset /\ username # a.user.username
                unverified == a.user
                object == [unverified EXCEPT
                              !.email = IF email # Unset THEN email ELSE @,
                              !.username =
                                  IF username # Unset THEN username ELSE @]
            IN IF email_changes /\ \E i \in UserIds :
                      users[i].email = email /\ i # a.user.id
               THEN [Same EXCEPT
                       !.response = Reply("update", 409, "EMAIL_EXISTS"),
                       !.cache = a.cache]
               ELSE IF username_changes /\ \E i \in UserIds :
                      users[i].username = username /\ i # a.user.id
               THEN [Same EXCEPT
                       !.response = Reply("update", 409, "USERNAME_EXISTS"),
                       !.cache = IF reuse
                                 THEN [a.cache EXCEPT ![a.user.id].value = unverified]
                                 ELSE a.cache]
               ELSE LET stored == StoreUser(a, reuse, object)
                    IN [Same EXCEPT
                           !.response =
                               IF a.attached
                               THEN [Reply("update", 200, "OK") EXCEPT
                                        !.user = a.user.id]
                               ELSE Reply("update", 500, "INTERNAL_ERROR"),
                           !.cache = stored.cache,
                           !.users = stored.users]

update_current_user(token, reuse, email, username) ==
    LET a == authenticate("update", token, reuse, TRUE)
    IN IF a.error # None
       THEN [Same EXCEPT !.response = a.error, !.cache = a.cache]
       ELSE IF email = Unset /\ username = Unset
       THEN [Same EXCEPT
               !.response = [Reply("update", 200, "OK") EXCEPT !.user = a.user.id],
               !.cache = a.cache]
       ELSE LET email_changes == email # Unset /\ email # a.user.email
                username_changes ==
                    username # Unset /\ username # a.user.username
                unverified == IF email_changes
                              THEN [a.user EXCEPT !.is_verified = FALSE]
                              ELSE a.user
                object == [unverified EXCEPT
                              !.email = IF email # Unset THEN email ELSE @,
                              !.username =
                                  IF username # Unset THEN username ELSE @]
            IN IF email_changes /\ \E i \in UserIds :
                      users[i].email = email /\ i # a.user.id
               THEN [Same EXCEPT
                       !.response = Reply("update", 409, "EMAIL_EXISTS"),
                       !.cache = a.cache]
               ELSE IF username_changes /\ \E i \in UserIds :
                      users[i].username = username /\ i # a.user.id
               THEN [Same EXCEPT
                       !.response = Reply("update", 409, "USERNAME_EXISTS"),
                       !.cache = IF reuse
                                 THEN [a.cache EXCEPT ![a.user.id].value = unverified]
                                 ELSE a.cache]
               ELSE LET stored == StoreUser(a, reuse, object)
                    IN [Same EXCEPT
                           !.response =
                               IF a.attached
                               THEN [Reply("update", 200, "OK") EXCEPT
                                        !.user = a.user.id]
                               ELSE Reply("update", 500, "INTERNAL_ERROR"),
                           !.cache = stored.cache,
                           !.users = stored.users]

UpdateProfile ==
    \E token \in IssuedAccessTokens, reuse \in BOOLEAN,
       email \in Emails \cup {Unset}, username \in Usernames \cup {Unset} :
        LET r == update_current_user(token, reuse, email, username)
        IN Apply(r) /\ UNCHANGED exchanges

----------------------------------------------------------------------------
\* The clock advances between requests.
\* An entry whose TTL has passed is read by no later get (get deletes it, the
\* set after the miss overwrites it), so it is dropped as the clock passes it.
TickTo(max_time) ==
    /\ now < max_time
    /\ now' = now + 1
    /\ cache' = [i \in 1..MaxUsers |->
                    IF cache[i] # None /\ expired_at(cache[i], now + 1)
                    THEN None ELSE cache[i]]
    /\ UNCHANGED <<users, refresh_tokens, login_attempts, access_tokens, exchanges,
                   pending, sdk, lru>>

----------------------------------------------------------------------------
\* InMemoryCache (app/core/cache.py), the class on its own.
MaxCacheSize == 2     \* the largest max_size of SpecCache
MaxCacheOps == 4      \* get hits and sets of SpecCache

CacheKeys == {"k1", "k2", "k3"}
CacheValues == {"x", "y"}
CacheTtls == {Null, 1}

NoEntries == [k \in {} |-> None]

\* InMemoryCache.__init__.  touched is the history of the keys touched by a
\* get hit or a set, in order; no method reads it.
InMemoryCache(max_size) ==
    [max_size |-> max_size, _storage |-> NoEntries, _access_order |-> << >>,
     touched |-> << >>]

CacheEntry(value, ttl) == [value |-> value, ttl |-> ttl, created_at |-> now]

\* CacheEntry.is_expired, with its ttl is None branch.
CacheEntry_is_expired(entry) ==
    IF entry.ttl = Null THEN FALSE ELSE expired_at(entry, now)

\* key in list.
InList(key, list) == \E i \in 1..Len(list) : list[i] = key

\* list.remove(key): the first occurrence goes.
RECURSIVE remove(_, _)
remove(list, key) ==
    IF list = << >> THEN << >>
    ELSE IF Head(list) = key THEN Tail(list)
    ELSE <<Head(list)>> \o remove(Tail(list), key)

\* dict.pop(key, None) / del dict[key].
pop(storage, key) == [k \in (DOMAIN storage) \ {key} |-> storage[k]]

size(c) == Cardinality(DOMAIN c._storage)

_evict_oldest(c) ==
    IF c._access_order # << >>
    THEN [c EXCEPT !._access_order = Tail(c._access_order),
                   !._storage = pop(c._storage, Head(c._access_order))]
    ELSE c

\* An access order that appends the key and leaves its older position.
_update_access_order_append(c, key) ==
    [c EXCEPT !._access_order = Append(c._access_order, key)]

_update_access_order(c, key) ==
    [c EXCEPT !._access_order =
        Append(IF InList(key, c._access_order)
               THEN remove(c._access_order, key)
               ELSE c._access_order, key)]

delete(c, key) ==
    IF key \in DOMAIN c._storage
    THEN [c EXCEPT !._storage = pop(c._storage, key),
                   !._access_order = IF InList(key, c._access_order)
                                     THEN remove(c._access_order, key)
                                     ELSE c._access_order]
    ELSE c

\* hit: the value returned is the entry's, not None.
get(c, key) ==
    IF key \notin DOMAIN c._storage
    THEN [cache |-> c, hit |-> FALSE, value |-> None]
    ELSE IF CacheEntry_is_expired(c._storage[key])
    THEN [cache |-> delete(c, key), hit |-> FALSE, value |-> None]
    ELSE [cache |-> _update_access_order(c, key), hit |-> TRUE,
          value |-> c._storage[key].value]

set(c, key, value, ttl) ==
    LET c1 == IF size(c) >= c.max_size /\ key \notin DOMAIN c._storage
              THEN _evict_oldest(c)
              ELSE c
        c2 == [c1 EXCEPT !._storage =
                  [k \in (DOMAIN c1._storage) \cup {key} |->
                      IF k = key THEN CacheEntry(value, ttl)
                      ELSE c1._storage[k]]]
    IN _update_access_order(c2, key)

clear(c) == [c EXCEPT !._storage = NoEntries, !._access_order = << >>]

CacheFrame ==
    UNCHANGED <<now, users, refresh_tokens, login_attempts, access_tokens, cache,
                exchanges, pending, sdk>>

CacheGet ==
    /\ \E key \in CacheKeys :
          LET r == get(lru, key)
          IN /\ r.hit => Len(lru.touched) < MaxCacheOps
             /\ lru' = [r.cache EXCEPT !.touched =
                           IF r.hit THEN Append(@, key) ELSE @]
    /\ CacheFrame

CacheSet ==
    /\ Len(lru.touched) < MaxCacheOps
    /\ \E key \in CacheKeys, value \in CacheValues, ttl \in CacheTtls :
          lru' = [set(lru, key, value, ttl) EXCEPT !.touched = Append(@, key)]
    /\ CacheFrame

CacheDelete ==
    /\ \E key \in CacheKeys : lru' = delete(lru, key)
    /\ CacheFrame

CacheClear ==
    /\ lru' = clear(lru)
    /\ CacheFrame

CacheTick == TickTo(MaxTime)

----------------------------------------------------------------------------
\* The database after init_db: the seeded account (create_superuser), whose
\* is_active / is_verified columns an operator may have changed since.
InitStore ==
    /\ now = 0
    /\ \E active \in BOOLEAN, verified \in BOOLEAN :
         users = << [id |-> 1, email |-> "a@x.com", username |-> "alice",
                     hashed_password |-> get_password_hash("Aa12345!", 1),
                     is_active |-> active, is_verified |-> verified,
                     last_login_at |-> Null, deleted_at |-> Null] >>
    /\ refresh_tokens = << >>
    /\ login_attempts = << >>
    /\ access_tokens = [i \in 1..MaxUsers |-> Null]
    /\ cache = [i \in 1..MaxUsers |-> None]
    /\ exchanges = << >>
    /\ pending = {}
    /\ sdk = [token |-> None, token_expires_at |-> Null, clock |-> 0,
              stack |-> << >>, http |-> << >>, call |-> "none",
              result |-> "idle"]

Init ==
    /\ InitStore
    /\ lru = InMemoryCache(MaxCacheSize)

Tick == TickTo(MaxTime)

Next ==
    \/ Register
    \/ Login
    \/ Refresh
    \/ Logout
    \/ DeleteAccount
    \/ ChangePassword
    \/ Tick

Spec == Init /\ [][Next]_vars

----------------------------------------------------------------------------
\* An InMemoryCache of any max_size under its four methods, while the clock
\* passes the TTL of its entries.
InitCache ==
    /\ InitStore
    /\ \E max_size \in 0..MaxCacheSize : lru = InMemoryCache(max_size)

NextCache ==
    \/ CacheGet
    \/ CacheSet
    \/ CacheDelete
    \/ CacheClear
    \/ CacheTick

SpecCache == InitCache /\ [][NextCache]_vars

----------------------------------------------------------------------------
\* The login path from every client address and over a longer time, with
\* accounts being soft-deleted by their owners.
LoginRL == LoginFrom(IPs, MaxLog)

DeleteAccountRL == DeleteAccount

TickRL == TickTo(MaxLimiterTime)

NextRL ==
    \/ LoginRL
    \/ DeleteAccountRL
    \/ TickRL

SpecRL == Init /\ [][NextRL]_vars

----------------------------------------------------------------------------
\* The account requests: registration, login and the bearer-authenticated
\* operations on the caller's own account.
LoginAccount == LoginFrom({"1.2.3.4"}, MaxSessionLog)

ChangePasswordAccount ==
    \E token \in IssuedAccessTokens, reuse \in BOOLEAN,
       current_password \in Passwords, new_password \in Passwords :
        LET r == change_password(token, reuse, current_password, new_password)
        IN Apply(r) /\ UNCHANGED exchanges

TickAccount == TickTo(MaxTime)

NextAccount ==
    \/ Register
    \/ LoginAccount
    \/ UpdateProfile
    \/ ChangePasswordAccount
    \/ DeleteAccount
    \/ Logout
    \/ TickAccount

SpecAccount == Init /\ [][NextAccount]_vars

\* Requests in flight.  register and update_current_user read the table for a
\* conflicting row and write later, at commit; between the two another request
\* may commit.  pending holds the requests that have passed their reads.  The
\* columns email and username are declared unique, so the INSERT or UPDATE of
\* a commit fails with an IntegrityError (answered 500, nothing written) when
\* another row holds the value by then.
MaxRace == 3

unique_violation_off(email, username, id) == FALSE

unique_violation(email, username, id) ==
    \E i \in UserIds :
        /\ i # id
        /\ (users[i].email = email \/ users[i].username = username)

FreeSlot == CHOOSE n \in 1..MaxRace : \A req \in pending : req.slot # n

RaceBudget == Len(exchanges) + Cardinality(pending) < MaxRace

RaceFrame ==
    UNCHANGED <<now, refresh_tokens, login_attempts, access_tokens, cache, sdk, lru>>

RegisterBegin ==
    \E email \in Emails, username \in Usernames :
        /\ RaceBudget
        /\ register(email, username, "Aa12345!").response.status = 201
        /\ pending' = pending \cup {[op |-> "register", user |-> Null,
                                     email |-> email, username |-> username,
                                     is_verified |-> FALSE, slot |-> FreeSlot]}
        /\ UNCHANGED <<users, exchanges>>
        /\ RaceFrame

RegisterCommit ==
    \E req \in pending :
        /\ req.op = "register"
        /\ pending' = pending \ {req}
        /\ IF unique_violation(req.email, req.username, Null)
           THEN /\ users' = users
                /\ exchanges' = Append(exchanges,
                      [request |-> req, at |-> now,
                       response |-> Reply("register", 500, "INTERNAL_ERROR")])
           ELSE /\ Len(users) < MaxUsers
                /\ users' = Append(users,
                      [id |-> Len(users) + 1,
                       email |-> req.email, username |-> req.username,
                       hashed_password |-> get_password_hash("Aa12345!", Len(users) + 1),
                       is_active |-> TRUE, is_verified |-> FALSE,
                       last_login_at |-> Null, deleted_at |-> Null])
                /\ exchanges' = Append(exchanges,
                      [request |-> req, at |-> now,
                       response |-> Reply("register", 201, "OK")])
        /\ RaceFrame

\* The request reads its user from the table (no cached object), so what it
\* assigns is written at commit.
UpdateBegin ==
    \E token \in IssuedAccessTokens,
       email \in Emails \cup {Unset}, username \in Usernames \cup {Unset} :
        LET r == update_current_user(token, FALSE, email, username)
        IN /\ RaceBudget
           /\ ~(email = Unset /\ username = Unset)
           /\ r.response.status = 200
           /\ pending' = pending \cup {[op |-> "update", user |-> token.sub,
                                        email |-> email, username |-> username,
                                        is_verified |-> r.users[token.sub].is_verified,
                                        slot |-> FreeSlot]}
           /\ UNCHANGED <<users, exchanges>>
           /\ RaceFrame

UpdateCommit ==
    \E req \in pending :
        /\ req.op = "update"
        /\ pending' = pending \ {req}
        /\ LET email == IF req.email = Unset THEN users[req.user].email
                        ELSE req.email
               username == IF req.username = Unset THEN users[req.user].username
                           ELSE req.username
           IN IF unique_violation(email, username, req.user)
              THEN /\ users' = users
                   /\ exchanges' = Append(exchanges,
                         [request |-> req, at |-> now,
                          response |-> Reply("update", 500, "INTERNAL_ERROR")])
              ELSE /\ users' = [users EXCEPT ![req.user].email = email,
                                             ![req.user].username = username,
                                             ![req.user].is_verified = req.is_verified]
                   /\ exchanges' = Append(exchanges,
                         [request |-> req, at |-> now,
                          response |-> Reply("update", 200, "OK")])
        /\ RaceFrame

LoginRace == LoginFrom({"1.2.3.4"}, MaxSessionLog)

NextRace ==
    \/ RegisterBegin
    \/ RegisterCommit
    \/ UpdateBegin
    \/ UpdateCommit
    \/ LoginRace

SpecRace == Init /\ [][NextRace]_vars

\* Login requests that may end between their two commits: record_login_attempt
\* commits the success row, and the handler's own commit, which writes
\* last_login_at and the refresh-token record, comes later.  A request that
\* ends in between (the connection is lost, the worker is stopped) leaves the
\* first commit alone.
LoginCrash == LoginFrom({"1.2.3.4"}, MaxSessionLog)

LoginAbort ==
    \E email \in Emails, password \in Passwords, ip_address \in {"1.2.3.4"} :
        LET r == login(email, password, ip_address)
        IN /\ r.response.status = 200
           /\ Len(r.login_attempts) <= MaxSessionLog
           /\ login_attempts' = r.login_attempts
           /\ UNCHANGED <<now, users, refresh_tokens, access_tokens, cache,
                          exchanges, pending, sdk, lru>>

TickCrash == TickTo(MaxTime)

NextCrash ==
    \/ LoginCrash
    \/ LoginAbort
    \/ TickCrash

SpecCrash == Init /\ [][NextCrash]_vars

\* The SDK client (client-sdk/python).  sdk holds the client's fields, its
\* clock, the frames of the calls it is in, and the HTTP calls sent since the
\* application's call began.  The clock counts half minutes.  The server's
\* replies are inputs.
MaxSdkClock == 4
MaxStack == 4
SdkMinute == 2

LoginPath == "/api/v1/auth/login"
RefreshPath == "/api/v1/auth/refresh"
MePath == "/api/v1/users/me"

SdkTokens ==
    {[access_token |-> a, refresh_token |-> "r", expires_in |-> e] :
        a \in {"t1", "t2"}, e \in {1, 3}}

\* 200 with a Token body, 200 with a body that is no Token, and 401.
SdkReplies ==
    {[status |-> 200, token |-> t] : t \in SdkTokens}
        \cup {[status |-> 200, token |-> None], [status |-> 401, token |-> None]}

_should_refresh_token(c) ==
    /\ c.token # None
    /\ c.token_expires_at # Null
    /\ c.clock >= c.token_expires_at - SdkMinute

_set_token(c, token) ==
    [c EXCEPT !.token = token, !.token_expires_at = c.clock + token.expires_in]

needs_refresh_any_path(c, path) == _should_refresh_token(c)

\* Client._request: auto-refresh token if needed.
needs_refresh(c, path) == _should_refresh_token(c) /\ path # RefreshPath

Top == sdk.stack[Len(sdk.stack)]

SdkFrame == UNCHANGED <<now, users, refresh_tokens, login_attempts, access_tokens,
                        cache, exchanges, pending, lru>>

\* The application calls auth.login or users.get_current_user.
SdkCall ==
    /\ sdk.stack = << >>
    /\ \E path \in {LoginPath, MePath} :
          sdk' = [sdk EXCEPT
                     !.stack = << [fn |-> "_request", path |-> path, pc |-> "check"] >>,
                     !.http = << >>, !.call = path, !.result = "running"]
    /\ SdkFrame

\* The application calls auth.refresh_token().
SdkCallRefresh ==
    /\ sdk.stack = << >>
    /\ sdk' = [sdk EXCEPT
                  !.stack = << [fn |-> "refresh_token", path |-> RefreshPath,
                                pc |-> "start"] >>,
                  !.http = << >>, !.call = RefreshPath, !.result = "running"]
    /\ SdkFrame

\* Client._request, its first statement.
SdkCheck ==
    /\ sdk.stack # << >>
    /\ Top.fn = "_request"
    /\ Top.pc = "check"
    /\ IF needs_refresh(sdk, Top.path)
       THEN /\ Len(sdk.stack) < MaxStack
            /\ sdk' = [sdk EXCEPT
                          !.stack = Append([sdk.stack EXCEPT ![Len(sdk.stack)].pc = "send"],
                                           [fn |-> "refresh_token", path |-> RefreshPath,
                                            pc |-> "start"])]
       ELSE sdk' = [sdk EXCEPT !.stack[Len(sdk.stack)].pc = "send"]
    /\ SdkFrame

\* AuthAPI.refresh_token up to its call of _request.
SdkRefreshStart ==
    /\ sdk.stack # << >>
    /\ Top.fn = "refresh_token"
    /\ Top.pc = "start"
    /\ IF sdk.token = None
       THEN sdk' = [sdk EXCEPT !.stack = << >>, !.result = "raised"]
       ELSE /\ Len(sdk.stack) < MaxStack
            /\ sdk' = [sdk EXCEPT
                          !.stack = Append([sdk.stack EXCEPT ![Len(sdk.stack)].pc = "await"],
                                           [fn |-> "_request", path |-> RefreshPath,
                                            pc |-> "check"])]
    /\ SdkFrame

\* Client._request from the HTTP call on, and what its caller does with the
\* response: login and refresh_token build a Token of it and store it.  A
\* status that is not 2xx, or a body that is no Token, raises, and the
\* exception leaves every frame.
SdkSend ==
    /\ sdk.stack # << >>
    /\ Top.fn = "_request"
    /\ Top.pc = "send"
    /\ \E reply \in SdkReplies :
          LET call == [path |-> Top.path,
                       authorization |-> IF sdk.token = None THEN None
                                         ELSE sdk.token.access_token,
                       reply |-> reply]
              sets == Top.path \in {LoginPath, RefreshPath}
              parsed == reply.status = 200 /\ (sets => reply.token # None)
              rest == SubSeq(sdk.stack, 1, Len(sdk.stack) - 1)
              caller == IF Top.path = RefreshPath
                        THEN SubSeq(rest, 1, Len(rest) - 1) ELSE rest
              c1 == IF sets /\ parsed THEN _set_token(sdk, reply.token) ELSE sdk
          IN sdk' = IF ~parsed
                    THEN [sdk EXCEPT !.http = Append(@, call), !.stack = << >>,
                                     !.result = "raised"]
                    ELSE [c1 EXCEPT !.http = Append(@, call), !.stack = caller,
                                    !.result = IF caller = << >> THEN "returned"
                                               ELSE "running"]
    /\ SdkFrame

SdkTick ==
    /\ sdk.clock < MaxSdkClock
    /\ sdk' = [sdk EXCEPT !.clock = @ + 1]
    /\ SdkFrame

NextClient ==
    \/ SdkCall
    \/ SdkCallRefresh
    \/ SdkCheck
    \/ SdkRefreshStart
    \/ SdkSend
    \/ SdkTick

SpecClient == Init /\ [][NextClient]_vars

\* The client's calls are synchronous: a call that has begun runs on.
SpecClientFair ==
    Init /\ [][NextClient]_vars
         /\ WF_vars(SdkCheck) /\ WF_vars(SdkRefreshStart) /\ WF_vars(SdkSend)

\* Login requests that overlap.  login reads (the rate-limit check, the SELECT
\* of the user, verify_password) and writes afterwards (the LoginAttempt row,
\* last_login_at, the refresh-token record); other requests may commit between
\* the two.  A login that has read and not yet written is in pending with what
\* it read: the user its credentials verified for (Null: none), that user's
\* is_active, and the number of login_attempts rows there were.  A login the
\* check denies records its row and is answered 429 at once.
LoginBegin ==
    \E email \in Emails, password \in Passwords, ip_address \in {"1.2.3.4"} :
        LET chk == check_login_rate_limit(email, ip_address)
            user == UserByEmail(email)
            verified == user # None /\ verify_password(password, user.hashed_password)
            r == login(email, password, ip_address)
        IN /\ RaceBudget
           /\ IF ~chk.allowed
              THEN /\ login_attempts' = r.login_attempts
                   /\ exchanges' = Append(exchanges,
                         [request |-> [op |-> "login", email |-> email,
                                       ip_address |-> ip_address],
                          response |-> r.response, at |-> now])
                   /\ UNCHANGED pending
              ELSE /\ pending' = pending \cup
                         {[op |-> "login", email |-> email, password |-> password,
                           ip_address |-> ip_address,
                           user |-> IF verified THEN user.id ELSE Null,
                           active |-> verified /\ user.is_active,
                           seen |-> Len(login_attempts), slot |-> FreeSlot]}
                   /\ UNCHANGED <<login_attempts, exchanges>>
           /\ UNCHANGED <<now, users, refresh_tokens, access_tokens, cache, sdk, lru>>

LoginFinish ==
    \E req \in pending :
        /\ req.op = "login"
        /\ pending' = pending \ {req}
        /\ LET request == [op |-> "login", email |-> req.email,
                           ip_address |-> req.ip_address]
           IN IF req.user = Null
              THEN /\ login_attempts' = record_login_attempt(
                          login_attempts, req.email, req.ip_address, FALSE, Null)
                   /\ exchanges' = Append(exchanges,
                         [request |-> request, at |-> now,
                          response |-> Reply("login", 401, "INVALID_CREDENTIALS")])
                   /\ UNCHANGED <<users, refresh_tokens, access_tokens>>
              ELSE IF ~req.active
              THEN /\ exchanges' = Append(exchanges,
                         [request |-> request, at |-> now,
                          response |-> Reply("login", 401, "USER_INACTIVE")])
                   /\ UNCHANGED <<login_attempts, users, refresh_tokens, access_tokens>>
              ELSE /\ login_attempts' = record_login_attempt(
                          login_attempts, req.email, req.ip_address, TRUE, req.user)
                   /\ users' = [users EXCEPT ![req.user].last_login_at = now]
                   /\ refresh_tokens' = Append(refresh_tokens,
                         [user_id |-> req.user,
                          token_hash |-> get_password_hash(
                                            create_refresh_token(req.user),
                                            Len(refresh_tokens) + 1),
                          expires_at |-> now + REFRESH_TOKEN_EXPIRE_DAYS,
                          revoked_at |-> Null])
                   /\ access_tokens' = [access_tokens EXCEPT
                                           ![req.user] = create_access_token(req.user).iat]
                   /\ exchanges' = Append(exchanges,
                         [request |-> request, at |-> now,
                          response |-> [Reply("login", 200, "OK") EXCEPT
                                           !.user = req.user,
                                           !.access_token = create_access_token(req.user),
                                           !.refresh_token = create_refresh_token(req.user)]])
        /\ UNCHANGED <<now, cache, sdk, lru>>

LogoutOverlap == Logout

DeleteOverlap == DeleteAccount

TickOverlap == TickTo(MaxTime)

NextOverlap ==
    \/ LoginBegin
    \/ LoginFinish
    \/ LogoutOverlap
    \/ DeleteOverlap
    \/ TickOverlap

SpecOverlap == Init /\ [][NextOverlap]_vars

----------------------------------------------------------------------------
\* The session requests alone, over a time in which refresh tokens expire and
\* in which an operator deactivates accounts in the store (is_active = false,
\* set on the row as the tests do; the cache is not told).
LoginLedger == LoginFrom({"1.2.3.4"}, MaxSessionLog)

Deactivate ==
    /\ \E i \in UserIds :
          /\ users[i].is_active
          /\ users[i].deleted_at = Null
          /\ users' = [users EXCEPT ![i].is_active = FALSE]
    /\ UNCHANGED <<now, refresh_tokens, login_attempts, access_tokens, cache,
                   exchanges, pending, sdk, lru>>

TickLedger == TickTo(MaxLimiterTime)

NextLedger ==
    \/ LoginLedger
    \/ Refresh
    \/ Logout
    \/ DeleteAccount
    \/ Deactivate
    \/ TickLedger

SpecLedger == Init /\ [][NextLedger]_vars

----------------------------------------------------------------------------
\* One client through register, login, refresh, logout, refresh, while the
\* clock advances between its requests.

TraceRegister ==
    /\ Len(exchanges) = 0
    /\ \E email \in Emails, username \in Usernames, password \in Passwords :
         /\ \A i \in UserIds : users[i].email # email /\ users[i].username # username
         /\ Observe([op |-> "register", email |-> email, username |-> username,
                     password |-> password],
                    register(email, username, password))

TraceLogin ==
    /\ Len(exchanges) = 1
    /\ \E ip_address \in IPs :
         LET q == exchanges[1].request
         IN Observe([op |-> "login", email |-> q.email, password |-> q.password,
                     ip_address |-> ip_address],
                    login(q.email, q.password, ip_address))

TraceRefresh ==
    /\ Len(exchanges) = 2
    /\ exchanges[2].response.status = 200
    /\ LET raw == exchanges[2].response.refresh_token
       IN Observe([op |-> "refresh", refresh_token |-> raw], refresh_token(raw))

TraceLogout ==
    /\ Len(exchanges) = 3
    /\ exchanges[3].response.status = 200
    /\ \E reuse \in BOOLEAN :
         LET token == exchanges[3].response.access_token
         IN Observe([op |-> "logout", token |-> token], logout(token, reuse))

TraceRefreshAgain ==
    /\ Len(exchanges) = 4
    /\ LET raw == exchanges[2].response.refresh_token
       IN Observe([op |-> "refresh", refresh_token |-> raw], refresh_token(raw))

TickTrace == TickTo(MaxLimiterTime)

NextTrace ==
    \/ TraceRegister
    \/ TraceLogin
    \/ TraceRefresh
    \/ TraceLogout
    \/ TraceRefreshAgain
    \/ TickTrace

SpecTrace == Init /\ [][NextTrace]_vars

\* C2: the trace register (new user) -> login (same email and password) ->
\* refresh -> logout (with the access token of the refresh) -> refresh (same
\* refresh token): 201 with the user stored unverified; 200 with a token pair;
\* 200 with a new access token (the refresh token being unexpired); 200 (the
\* access token being unexpired); 401 INVALID_REFRESH_TOKEN.
C2_EndToEndTrace ==
    LET n == Len(exchanges)
        R(k) == exchanges[k].response
    IN /\ n >= 1 =>
            /\ R(1).status = 201
            /\ R(1).user \in UserIds
            /\ users[R(1).user].email = exchanges[1].request.email
            /\ users[R(1).user].is_verified = FALSE
       /\ n >= 2 =>
            /\ R(2).status = 200
            /\ R(2).access_token # None /\ R(2).access_token.type = "access"
            /\ R(2).refresh_token # None /\ R(2).refresh_token.type = "refresh"
       /\ (n >= 3 /\ exchanges[3].at <= R(2).refresh_token.exp) =>
            /\ R(3).status = 200
            /\ R(3).access_token # None
            /\ R(3).access_token.sub = R(1).user
            /\ R(3).access_token.iat = exchanges[3].at
       /\ (n >= 4 /\ exchanges[4].at <= R(3).access_token.exp) =>
            R(4).status = 200
       /\ (n >= 5 /\ R(4).status = 200) =>
            R(5).status = 401 /\ R(5).code = "INVALID_REFRESH_TOKEN"

\* The whole trace has run as claimed.
C2_Witness ==
    /\ Len(exchanges) = 5
    /\ exchanges[1].response.status = 201
    /\ exchanges[2].response.status = 200
    /\ exchanges[3].response.status = 200
    /\ exchanges[4].response.status = 200
    /\ exchanges[5].response.code = "INVALID_REFRESH_TOKEN"
    /\ exchanges[5].at < exchanges[2].response.refresh_token.exp

----------------------------------------------------------------------------
\* One client address failing the password of one account again and again,
\* while other pairs log in and the clock advances.

BurstLogin ==
    /\ Len(exchanges) < MaxBurst
    /\ \E email \in Emails, password \in Passwords, ip_address \in IPs :
         /\ Len(exchanges) > 0 =>
                /\ email = exchanges[1].request.email
                /\ ip_address = exchanges[1].request.ip_address
         /\ UserByEmail(email) # None
         /\ ~verify_password(password, UserByEmail(email).hashed_password)
         /\ Observe([op |-> "login", email |-> email, password |-> password,
                     ip_address |-> ip_address],
                    login(email, password, ip_address))

BurstOther ==
    /\ Len(exchanges) > 0
    /\ \E email \in Emails, password \in Passwords, ip_address \in IPs :
         /\ ~(email = exchanges[1].request.email
              /\ ip_address = exchanges[1].request.ip_address)
         /\ LET r == login(email, password, ip_address)
            IN /\ Len(r.login_attempts) <= MaxBurst
               /\ Len(r.refresh_tokens) <= MaxBurstLedger
               /\ Apply(r)
               /\ UNCHANGED exchanges

TickBurst == TickTo(MaxLimiterTime)

NextBurst ==
    \/ BurstLogin
    \/ BurstOther
    \/ TickBurst

SpecBurst == Init /\ [][NextBurst]_vars

----------------------------------------------------------------------------
\* The raw token whose hash a ledger row stores.
RawOf(row) == row.token_hash[3]

\* C1: in every reachable state, a Refresh that presents the token of a ledger
\* row whose revoked_at is set fails with 401 INVALID_REFRESH_TOKEN, whatever
\* requests were served since the revocation and also while the row is unexpired.
C1_RevokedTokenNeverRefreshes ==
    \A i \in 1..Len(refresh_tokens) :
        refresh_tokens[i].revoked_at # Null =>
            LET r == refresh_token(RawOf(refresh_tokens[i])).response
            IN r.status = 401 /\ r.code = "INVALID_REFRESH_TOKEN"

----------------------------------------------------------------------------
\* The failed rows of a pair, read off the log: those whose attempted_at is no
\* more than one window before t.
PairFailures(email, ip_address, t) ==
    {i \in 1..Len(login_attempts) :
        /\ login_attempts[i].email = email
        /\ login_attempts[i].ip_address = ip_address
        /\ ~login_attempts[i].success
        /\ t - login_attempts[i].attempted_at <= window_minutes}

Limited(email, ip_address) ==
    Cardinality(PairFailures(email, ip_address, now)) >= max_attempts

\* The existing, non-deleted, active users whose password is the given one.
ActiveWithPassword(email, password) ==
    {i \in UserIds :
        /\ users[i].email = email
        /\ users[i].deleted_at = Null
        /\ users[i].is_active
        /\ users[i].hashed_password[3] = password}

TokenPairFor(response, id) ==
    /\ response.status = 200
    /\ response.access_token # None
    /\ response.access_token.type = "access"
    /\ response.access_token.sub = id
    /\ response.refresh_token # None
    /\ response.refresh_token.type = "refresh"
    /\ response.refresh_token.sub = id

\* C3 as stated: in every reachable state, Login with the correct password of
\* an existing, non-deleted, active user returns a token pair whose sub is the
\* user's id.
C3_CorrectPasswordAlwaysSucceeds ==
    \A email \in Emails, password \in Passwords, ip_address \in IPs :
        \A id \in ActiveWithPassword(email, password) :
            TokenPairFor(login(email, password, ip_address).response, id)

\* C3: Login with the correct password of an existing, non-deleted, active
\* user returns a token pair whose sub is the user's id in every state where
\* the (email, ip) pair has fewer than max_attempts failed rows in the window;
\* where it has max_attempts or more, the same login is answered 429
\* RATE_LIMIT_EXCEEDED and issues nothing.
C3_CorrectPasswordSucceedsUnlessLimited ==
    \A email \in Emails, password \in Passwords, ip_address \in IPs :
        \A id \in ActiveWithPassword(email, password) :
            LET r == login(email, password, ip_address)
            IN IF Limited(email, ip_address)
               THEN /\ r.response.status = 429
                    /\ r.response.code = "RATE_LIMIT_EXCEEDED"
                    /\ r.response.access_token = None
                    /\ r.refresh_tokens = refresh_tokens
               ELSE /\ TokenPairFor(r.response, id)
                    /\ Len(r.refresh_tokens) = Len(refresh_tokens) + 1

\* A login has succeeded from an address while the account's password was being
\* failed in the same window, from that address and from the other one.
C3_Witness ==
    /\ Len(login_attempts) = 3
    /\ ~login_attempts[1].success
    /\ ~login_attempts[2].success
    /\ login_attempts[1].ip_address # login_attempts[2].ip_address
    /\ login_attempts[3].success
    /\ login_attempts[3].user_id = 1
    /\ login_attempts[3].email = login_attempts[1].email
    /\ login_attempts[3].email = login_attempts[2].email
    /\ login_attempts[3].attempted_at - login_attempts[1].attempted_at
           <= window_minutes
    /\ Len(refresh_tokens) = 1

\* The three ways a login names no account it can enter: a wrong password for
\* an existing user, an email no user has, the email of a soft-deleted user.
WrongPasswordFor(email, password) ==
    \E i \in UserIds :
        /\ users[i].email = email
        /\ users[i].deleted_at = Null
        /\ users[i].hashed_password[3] # password

UnknownEmail(email) == \A i \in UserIds : users[i].email # email

SoftDeletedEmail(email) ==
    \E i \in UserIds : users[i].email = email /\ users[i].deleted_at # Null

FailuresEver(email, ip_address) ==
    {i \in 1..Len(login_attempts) :
        /\ login_attempts[i].email = email
        /\ login_attempts[i].ip_address = ip_address
        /\ ~login_attempts[i].success}

\* C6: a pair with failed attempts, the most recent of them more than one
\* window ago, is allowed by the rate-limit check with remaining = max_attempts.
C6_AllowedAfterWindow ==
    \A email \in Emails, ip_address \in IPs :
        LET F == FailuresEver(email, ip_address)
        IN (/\ F # {}
            /\ \A i \in F : now - login_attempts[i].attempted_at > window_minutes) =>
                check_login_rate_limit(email, ip_address) =
                    [allowed |-> TRUE, remaining |-> max_attempts,
                     retry_after |-> Null]

\* A pair that was denied (more failed rows than the threshold, made at one
\* time) and whose last failed attempt is more than a window ago.
C6_Witness ==
    \E email \in Emails, ip_address \in IPs :
        LET F == FailuresEver(email, ip_address)
        IN /\ Cardinality(F) > max_attempts
           /\ \A i \in F : now - login_attempts[i].attempted_at > window_minutes

\* The rows of the pair, of either outcome.
PairRows(email, ip_address) ==
    {i \in 1..Len(login_attempts) :
        /\ login_attempts[i].email = email
        /\ login_attempts[i].ip_address = ip_address}

\* The failed rows of the pair that the check of the request recorded as row
\* last counted: those before it, no more than one window older.
CountedAt(email, ip_address, last) ==
    {i \in PairFailures(email, ip_address, login_attempts[last].attempted_at) :
        i < last}

\* C7 as stated: when the latest attempt of a pair was denied with retry_after
\* T and the clock is later than T, the rate-limit check allows the pair.
C7_AdmittedAfterRetryAfter ==
    \A email \in Emails, ip_address \in IPs :
        LET P == PairRows(email, ip_address)
        IN P # {} =>
            LET last == CHOOSE i \in P : \A j \in P : j <= i
                C == CountedAt(email, ip_address, last)
            IN Cardinality(C) >= max_attempts =>
                LET oldest == CHOOSE i \in C : \A j \in C :
                                  login_attempts[i].attempted_at
                                      <= login_attempts[j].attempted_at
                    T == login_attempts[oldest].attempted_at + window_minutes
                IN now > T => check_login_rate_limit(email, ip_address).allowed

\* The rows the check is to count, and the answer it is to give.
C8_CountedRows(email, ip_address) ==
    {i \in 1..Len(login_attempts) :
        /\ login_attempts[i].email = email
        /\ login_attempts[i].ip_address = ip_address
        /\ login_attempts[i].success = FALSE
        /\ login_attempts[i].attempted_at >= now - window_minutes}

C8_Expected(email, ip_address) ==
    LET S == C8_CountedRows(email, ip_address)
        count == Cardinality(S)
        Times == {login_attempts[i].attempted_at : i \in S}
    IN IF count < max_attempts
       THEN [allowed |-> TRUE, remaining |-> max_attempts - count,
             retry_after |-> Null]
       ELSE [allowed |-> FALSE, remaining |-> 0,
             retry_after |-> (CHOOSE t \in Times : \A u \in Times : t <= u)
                                 + window_minutes]

C8_Functional ==
    \A email \in Emails, ip_address \in IPs :
        check_login_rate_limit(email, ip_address) = C8_Expected(email, ip_address)

\* A request that appends one row irrelevant to a pair.
C8_Frame ==
    \A email \in Emails, ip_address \in IPs :
        (/\ now' = now
         /\ Len(login_attempts') = Len(login_attempts) + 1
         /\ SubSeq(login_attempts', 1, Len(login_attempts)) = login_attempts
         /\ LET row == login_attempts'[Len(login_attempts')]
            IN \/ row.email # email
               \/ row.ip_address # ip_address
               \/ row.success) =>
            check_login_rate_limit(email, ip_address)' =
                check_login_rate_limit(email, ip_address)

\* C8: check_login_rate_limit(email, ip) answers from the rows of that email
\* and ip with success false and attempted_at >= now - window alone: allowed
\* with remaining = max_attempts - count and no retry_after when count <
\* max_attempts, denied with remaining 0 and retry_after = oldest counted
\* attempted_at + window otherwise; and a request that appends only rows of
\* another email, of another ip or of a success leaves the answer as it was.
C8_CheckLoginRateLimit == [](C8_Functional) /\ [][C8_Frame]_vars

\* A pair is denied on rows the oldest of which is exactly one window old,
\* while the log also holds a success of the pair and a failure from the other
\* address.
C8_Witness ==
    \E email \in Emails, ip_address \in IPs :
        LET c == check_login_rate_limit(email, ip_address)
        IN /\ ~c.allowed
           /\ c.retry_after = now
           /\ \E i \in 1..Len(login_attempts) :
                 /\ login_attempts[i].email = email
                 /\ \/ login_attempts[i].success
                    \/ login_attempts[i].ip_address # ip_address

\* C9 as stated: every Login, whatever its outcome, appends exactly one row to
\* login_attempts: success true with the user's id when it succeeds, success
\* false otherwise.
C9_EveryLoginAppendsOneRow ==
    \A email \in Emails, password \in Passwords, ip_address \in IPs :
        LET r == login(email, password, ip_address)
            n == Len(login_attempts)
        IN /\ Len(r.login_attempts) = n + 1
           /\ SubSeq(r.login_attempts, 1, n) = login_attempts
           /\ r.login_attempts[n + 1].email = email
           /\ r.login_attempts[n + 1].ip_address = ip_address
           /\ r.login_attempts[n + 1].success = (r.response.status = 200)
           /\ r.response.status = 200 =>
                  r.login_attempts[n + 1].user_id = r.response.user

\* A step in which a login of the pair succeeds.
C10_SuccessStep(email, ip_address) ==
    /\ Len(refresh_tokens') = Len(refresh_tokens) + 1
    /\ Len(login_attempts') > 0
    /\ LET row == login_attempts'[Len(login_attempts')]
       IN row.success /\ row.email = email /\ row.ip_address = ip_address

C10_Frame ==
    \A email \in Emails, ip_address \in IPs :
        C10_SuccessStep(email, ip_address) =>
            /\ {login_attempts'[i] : i \in FailuresEver(email, ip_address)'} =
                   {login_attempts[i] : i \in FailuresEver(email, ip_address)}
            /\ Cardinality(FailuresEver(email, ip_address)') =
                   Cardinality(FailuresEver(email, ip_address))
            /\ check_login_rate_limit(email, ip_address)' =
                   check_login_rate_limit(email, ip_address)

C10_StillDenied ==
    \A email \in Emails, password \in Passwords, ip_address \in IPs :
        Limited(email, ip_address) =>
            login(email, password, ip_address).response.status = 429

\* C10: a request that logs a pair in leaves the failed rows of the pair and
\* the answer of its rate-limit check as they were; and a pair with
\* max_attempts failed rows in the window is answered 429 whatever successes
\* of the pair lie among them.
C10_SuccessKeepsFailures == [](C10_StillDenied) /\ [][C10_Frame]_vars

\* A pair with max_attempts - 1 failures has logged in and failed once more:
\* its log reads failure, success, failure inside one window, and it is denied.
C10_Witness ==
    \E email \in Emails, ip_address \in IPs :
        /\ PairRows(email, ip_address) = {1, 2, 3}
        /\ ~login_attempts[1].success
        /\ login_attempts[2].success
        /\ ~login_attempts[3].success
        /\ now - login_attempts[1].attempted_at <= window_minutes
        /\ ~check_login_rate_limit(email, ip_address).allowed

----------------------------------------------------------------------------
\* The existing, non-deleted users of an email whose is_active is false.
InactiveWithEmail(email) ==
    {i \in UserIds :
        /\ users[i].email = email
        /\ users[i].deleted_at = Null
        /\ ~users[i].is_active}

----------------------------------------------------------------------------
\* The well-signed refresh tokens a client can present, issued or not.
RefreshTokenShapes ==
    {[sub |-> u, type |-> "refresh", iat |-> t,
      exp |-> t + REFRESH_TOKEN_EXPIRE_DAYS] :
        u \in 1..MaxUsers, t \in 0..MaxLimiterTime}

\* The ledger records of a raw token.
RecordsOf(raw) ==
    {i \in 1..Len(refresh_tokens) : RawOf(refresh_tokens[i]) = raw}

TokenExpired(raw) == now > raw.exp

TokenRevoked(raw) ==
    /\ RecordsOf(raw) # {}
    /\ \A i \in RecordsOf(raw) : refresh_tokens[i].revoked_at # Null

TokenUnrecorded(raw) == RecordsOf(raw) = {}

\* C12: a Refresh with a token that does not decode, with an expired refresh
\* token, with a refresh token all of whose ledger records are revoked, or with
\* a well-signed refresh token that has no ledger record is answered 401
\* INVALID_REFRESH_TOKEN, the same response in the four cases, and leaves every
\* table as it was.
C12_RefreshFailuresAlike ==
    \A raw \in RefreshTokenShapes \cup {Garbage} :
        (\/ raw = Garbage
         \/ raw # Garbage /\ TokenExpired(raw)
         \/ raw # Garbage /\ TokenRevoked(raw)
         \/ raw # Garbage /\ TokenUnrecorded(raw)) =>
            refresh_token(raw) =
                [Same EXCEPT
                    !.response = Reply("refresh", 401, "INVALID_REFRESH_TOKEN")]

\* An active user holds a token that has expired and whose one ledger record
\* was never revoked.
C12_Witness ==
    /\ Len(refresh_tokens) = 1
    /\ users[1].is_active
    /\ users[1].deleted_at = Null
    /\ refresh_tokens[1].revoked_at = Null
    /\ TokenExpired(RawOf(refresh_tokens[1]))

----------------------------------------------------------------------------
\* A refresh token that is unexpired, has a non-revoked ledger record and
\* belongs to an existing, non-deleted, active user.
TokenLive(raw) ==
    /\ ~TokenExpired(raw)
    /\ \E i \in RecordsOf(raw) :
          refresh_tokens[i].revoked_at = Null /\ refresh_tokens[i].user_id = raw.sub
    /\ raw.sub \in UserIds
    /\ users[raw.sub].deleted_at = Null
    /\ users[raw.sub].is_active

\* C13: a Refresh that succeeds returns a new access token for the token's
\* user and no refresh token, and leaves the ledger (its records, their
\* revoked_at and expires_at), the users, the login attempts and the cache as
\* they were; and a Refresh succeeds whenever the token is unexpired and has a
\* non-revoked record (its user existing and active), so the same token
\* serves any number of refreshes until it expires or is revoked.
C13_RefreshChangesNothing ==
    \A raw \in RefreshTokenShapes :
        LET r == refresh_token(raw)
        IN /\ TokenLive(raw) => r.response.status = 200
           /\ r.response.status = 200 =>
                /\ r.response.access_token =
                       [sub |-> raw.sub, type |-> "access", iat |-> now,
                        exp |-> now + ACCESS_TOKEN_EXPIRE_MINUTES]
                /\ r.response.refresh_token = None
                /\ r.refresh_tokens = refresh_tokens
                /\ r.users = users
                /\ r.login_attempts = login_attempts
                /\ r.cache = cache

\* A refresh has been served after the user's last login (the newest access
\* token is younger than the login) and the token it presented is still live.
C13_Witness ==
    /\ Len(refresh_tokens) = 1
    /\ TokenLive(RawOf(refresh_tokens[1]))
    /\ access_tokens[1] # Null
    /\ access_tokens[1] > users[1].last_login_at
    /\ now > access_tokens[1]

----------------------------------------------------------------------------
\* C14: a Refresh whose token names a user that is absent, soft-deleted or has
\* is_active = false issues no access token, also when the token is unexpired
\* and has a non-revoked ledger record (it is then answered 401
\* USER_NOT_FOUND).
C14_NoRefreshForGoneUser ==
    \A raw \in RefreshTokenShapes :
        (\/ raw.sub \notin UserIds
         \/ raw.sub \in UserIds /\ users[raw.sub].deleted_at # Null
         \/ raw.sub \in UserIds /\ ~users[raw.sub].is_active) =>
            LET r == refresh_token(raw)
            IN /\ r.response.status = 401
               /\ r.response.access_token = None
               /\ r.access_tokens = access_tokens
               /\ (/\ ~TokenExpired(raw)
                   /\ \E i \in RecordsOf(raw) : refresh_tokens[i].revoked_at = Null)
                      => r.response.code = "USER_NOT_FOUND"

\* A user that logged in has been deactivated while holding an unexpired
\* refresh token whose record is not revoked.
C14_Witness ==
    /\ Len(refresh_tokens) = 1
    /\ refresh_tokens[1].revoked_at = Null
    /\ ~TokenExpired(RawOf(refresh_tokens[1]))
    /\ users[1].deleted_at = Null
    /\ ~users[1].is_active
    /\ now > refresh_tokens[1].token_hash[3].iat

----------------------------------------------------------------------------
\* The well-signed access tokens a client can present.
AccessTokenShapes ==
    {[sub |-> u, type |-> "access", iat |-> t,
      exp |-> t + ACCESS_TOKEN_EXPIRE_MINUTES] :
        u \in 1..MaxUsers, t \in 0..MaxLimiterTime}

\* C15: a Logout whose caller get_current_user accepts is answered 200, whether
\* or not the user has a non-revoked record (so also when repeated); in the
\* state it leaves no record of that user has revoked_at = null, and the
\* records of the other users, and the number of records, are as they were.
C15_LogoutRevokesAllOfUser ==
    \A token \in AccessTokenShapes, reuse \in BOOLEAN :
        authenticate("logout", token, reuse, FALSE).error = None =>
            LET r == logout(token, reuse)
            IN /\ r.response.status = 200
               /\ Len(r.refresh_tokens) = Len(refresh_tokens)
               /\ \A i \in 1..Len(refresh_tokens) :
                     IF refresh_tokens[i].user_id = token.sub
                     THEN r.refresh_tokens[i].revoked_at # Null
                     ELSE r.refresh_tokens[i] = refresh_tokens[i]

\* One user's record was revoked by a logout made after another user had
\* logged in, and the other user's record is not revoked.
C15_Witness ==
    /\ Len(refresh_tokens) = 2
    /\ refresh_tokens[1].user_id # refresh_tokens[2].user_id
    /\ refresh_tokens[1].revoked_at # Null
    /\ refresh_tokens[2].revoked_at = Null
    /\ refresh_tokens[1].revoked_at > RawOf(refresh_tokens[2]).iat

----------------------------------------------------------------------------
\* What a step may do to the ledger.
C16_Step ==
    /\ Len(refresh_tokens') >= Len(refresh_tokens)
    /\ \A i \in 1..Len(refresh_tokens) :
          /\ refresh_tokens'[i].user_id = refresh_tokens[i].user_id
          /\ refresh_tokens'[i].token_hash = refresh_tokens[i].token_hash
          /\ refresh_tokens'[i].expires_at = refresh_tokens[i].expires_at
          /\ refresh_tokens[i].revoked_at # Null =>
                 refresh_tokens'[i].revoked_at = refresh_tokens[i].revoked_at

\* C16: no step removes a ledger record or changes its owner, hash or
\* expires_at, and a record whose revoked_at is set keeps exactly that value
\* through every later step, Logout and Delete account included: revoked_at
\* never changes again and never returns to null.
C16_RevocationMonotonic == [][C16_Step]_vars

\* Two records of one user revoked by two logouts at different times: the first
\* was already revoked when the second token was issued, and kept its value.
C16_Witness ==
    /\ Len(refresh_tokens) = 2
    /\ refresh_tokens[1].user_id = refresh_tokens[2].user_id
    /\ refresh_tokens[1].revoked_at # Null
    /\ refresh_tokens[2].revoked_at # Null
    /\ refresh_tokens[1].revoked_at < RawOf(refresh_tokens[2]).iat
    /\ refresh_tokens[2].revoked_at > refresh_tokens[1].revoked_at

----------------------------------------------------------------------------
\* C17 as stated: for every ledger record and every time, is_valid is true
\* exactly when revoked_at is null and now < expires_at; it is false at
\* now = expires_at.
C17_ValidIffUnrevokedAndBeforeExpiry ==
    \A i \in 1..Len(refresh_tokens) :
        is_valid(refresh_tokens[i]) <=>
            (refresh_tokens[i].revoked_at = Null
                /\ now < refresh_tokens[i].expires_at)

----------------------------------------------------------------------------
\* What the state is to be when Delete account has answered 200.
C18_DeletePost ==
    \A token \in AccessTokenShapes, reuse \in BOOLEAN :
        LET r == delete_current_user(token, reuse)
        IN r.response.status = 200 =>
              /\ r.users[token.sub].deleted_at # Null
              /\ ~r.users[token.sub].is_active
              /\ \A i \in 1..Len(r.refresh_tokens) :
                    r.refresh_tokens[i].user_id = token.sub =>
                        r.refresh_tokens[i].revoked_at # Null

\* A soft-deleted user's email and password do not log in.
C18_DeletedCannotLogin ==
    \A i \in UserIds, ip_address \in IPs :
        (users[i].deleted_at # Null /\ ~Limited(users[i].email, ip_address)) =>
            LET r == login(users[i].email, users[i].hashed_password[3], ip_address)
            IN r.response.status = 401 /\ r.response.access_token = None

\* No step undoes a soft deletion.
C18_NotUndone ==
    \A i \in UserIds :
        users[i].deleted_at # Null =>
            /\ users'[i].deleted_at = users[i].deleted_at
            /\ ~users'[i].is_active

\* C18 as stated: when Delete account has answered 200 the user has deleted_at
\* set and is_active = false and every record of the user is revoked; every
\* later Login with the user's email and password is answered 401; and no
\* later step undoes the deletion.
C18_DeleteIsFinal ==
    /\ [](C18_DeletePost)
    /\ [](C18_DeletedCannotLogin)
    /\ [][C18_NotUndone]_vars

----------------------------------------------------------------------------
\* C19 as stated: once a user is soft-deleted, get_current_user rejects every
\* request that carries an access token of that user, unexpired or not, so no
\* authenticated operation is open to the user.
C19_DeletedUserRejected ==
    \A i \in UserIds :
        users[i].deleted_at # Null =>
            \A token \in AccessTokenShapes, reuse \in BOOLEAN :
                token.sub = i =>
                    authenticate("me", token, reuse, FALSE).error # None

----------------------------------------------------------------------------
----------------------------------------------------------------------------
\* The stored users that an unexpired access token names and that are
\* non-deleted and active, by their is_verified.
StoredCaller(token, verified) ==
    /\ decode_ok(token)
    /\ token.sub \in UserIds
    /\ users[token.sub].deleted_at = Null
    /\ users[token.sub].is_active
    /\ users[token.sub].is_verified = verified

\* C21 as stated: Delete account by an authenticated, active user whose
\* is_verified is false is answered 403 EMAIL_NOT_VERIFIED and changes
\* nothing: the users and the ledger are as they were.
C21_UnverifiedDeleteRefused ==
    \A token \in AccessTokenShapes, reuse \in BOOLEAN :
        StoredCaller(token, FALSE) =>
            LET r == delete_current_user(token, reuse)
            IN /\ r.response.status = 403
               /\ r.response.code = "EMAIL_NOT_VERIFIED"
               /\ r.users = users
               /\ r.refresh_tokens = refresh_tokens

----------------------------------------------------------------------------
ResolvedCaller(token, reuse, verified) ==
    /\ decode_ok(token)
    /\ LET got == get_user_by_id(token.sub, reuse)
       IN /\ got.user # None
          /\ got.user.is_active
          /\ got.user.is_verified = verified

----------------------------------------------------------------------------
\* C23 as stated: for an authenticated, active, verified user Change password
\* is answered 401 INVALID_PASSWORD when the current password does not verify
\* against the stored hash (checked first), 400 SAME_PASSWORD when the new
\* password equals the current one, the stored hash unchanged in both, and 200
\* otherwise, after which the stored hash verifies the new password and no
\* longer the old one, which is what every later Login reads.
C23_ChangePasswordExact ==
    \A token \in AccessTokenShapes, reuse \in BOOLEAN,
       current_password \in Passwords, new_password \in Passwords :
        StoredCaller(token, TRUE) =>
            LET r == change_password(token, reuse, current_password,
                                     new_password)
                stored == users[token.sub].hashed_password
                after == r.users[token.sub].hashed_password
            IN IF ~verify_password(current_password, stored)
               THEN /\ r.response.status = 401
                    /\ r.response.code = "INVALID_PASSWORD"
                    /\ r.users = users
               ELSE IF current_password = new_password
               THEN /\ r.response.status = 400
                    /\ r.response.code = "SAME_PASSWORD"
                    /\ r.users = users
               ELSE /\ r.response.status = 200
                    /\ verify_password(new_password, after)
                    /\ ~verify_password(current_password, after)

----------------------------------------------------------------------------
\* The step of a Change password request answered 200.
C24_Step(token, reuse, current_password, new_password) ==
    LET r == change_password(token, reuse, current_password, new_password)
    IN /\ r.response.status = 200
       /\ users' = r.users
       /\ refresh_tokens' = r.refresh_tokens
       /\ login_attempts' = r.login_attempts
       /\ cache' = r.cache
       /\ now' = now

\* No step that changes the ledger, and no step after which Refresh refuses a
\* token it accepted, is the step of a Change password answered 200 (of that
\* token's user).
C24_Frame ==
    /\ refresh_tokens' # refresh_tokens =>
          ~\E token \in AccessTokenShapes, reuse \in BOOLEAN,
              current_password \in Passwords, new_password \in Passwords :
               C24_Step(token, reuse, current_password, new_password)
    /\ \A raw \in RefreshTokenShapes :
          (/\ refresh_token(raw).response.status = 200
           /\ ~(refresh_token(raw).response.status = 200)') =>
              ~\E token \in AccessTokenShapes, reuse \in BOOLEAN,
                  current_password \in Passwords, new_password \in Passwords :
                   /\ token.sub = raw.sub
                   /\ C24_Step(token, reuse, current_password, new_password)

\* C24: a Change password answered 200 leaves the ledger as it was, and every
\* refresh token of the user that Refresh accepted before it Refresh accepts
\* after it.
C24_ChangePasswordKeepsSessions == [][C24_Frame]_vars

\* The seeded user has changed its password and holds a refresh token that
\* Refresh still accepts.
C24_Witness ==
    /\ users[1].hashed_password # get_password_hash("Aa12345!", 1)
    /\ \E k \in 1..Len(refresh_tokens) :
          /\ refresh_tokens[k].user_id = 1
          /\ refresh_token(RawOf(refresh_tokens[k])).response.status = 200

----------------------------------------------------------------------------
C25_Register ==
    \A email \in Emails, username \in Usernames, password \in Passwords :
        LET r == register(email, username, password)
        IN IF \E i \in UserIds : users[i].email = email
           THEN /\ r.response.status = 409
                /\ r.response.code = "EMAIL_EXISTS"
                /\ r.users = users
           ELSE IF \E i \in UserIds : users[i].username = username
           THEN /\ r.response.status = 409
                /\ r.response.code = "USERNAME_EXISTS"
                /\ r.users = users
           ELSE /\ r.response.status = 201
                /\ Len(r.users) = Len(users) + 1
                /\ SubSeq(r.users, 1, Len(users)) = users
                /\ r.users[Len(r.users)].email = email
                /\ r.users[Len(r.users)].username = username
                /\ r.users[Len(r.users)].is_active
                /\ ~r.users[Len(r.users)].is_verified
                /\ r.response.access_token = None
                /\ r.response.refresh_token = None
                /\ r.refresh_tokens = refresh_tokens

C25_Unique ==
    \A i \in UserIds, j \in UserIds :
        i # j => /\ users[i].email # users[j].email
                 /\ users[i].username # users[j].username

\* C25: Register is answered 409 EMAIL_EXISTS when a stored user has the
\* email, else 409 USERNAME_EXISTS when one has the username, creating nothing,
\* and otherwise creates one user with is_active true and is_verified false,
\* no token and no ledger record; and whatever Register and profile-update
\* requests have run, overlapping ones included, no two stored users share an
\* email or a username.
C25_RegisterUnique == C25_Register /\ C25_Unique

\* Two users are stored and a request that passed its reads before the other
\* user's row was committed has been refused at its own commit.
C25_Witness ==
    /\ Len(users) = 2
    /\ \E k \in 1..Len(exchanges) :
          /\ exchanges[k].response.status = 500
          /\ \E i \in UserIds :
                /\ i # exchanges[k].request.user
                /\ \/ users[i].email = exchanges[k].request.email
                   \/ users[i].username = exchanges[k].request.username

----------------------------------------------------------------------------
\* C26 as stated: no reachable state, a request ended part-way included,
\* holds the success LoginAttempt row of a login without the refresh-token
\* record of that login: for every user and time, the success rows of the user
\* at that time are no more than the ledger records issued to it then.
C26_SuccessRowHasTokenRecord ==
    \A u \in UserIds, t \in 0..MaxLimiterTime :
        Cardinality({k \in 1..Len(login_attempts) :
                        /\ login_attempts[k].success
                        /\ login_attempts[k].user_id = u
                        /\ login_attempts[k].attempted_at = t})
          <= Cardinality({k \in 1..Len(refresh_tokens) :
                             /\ refresh_tokens[k].user_id = u
                             /\ refresh_tokens[k].expires_at =
                                    t + REFRESH_TOKEN_EXPIRE_DAYS})

----------------------------------------------------------------------------
\* C27: a profile update answered 200 that changes the email (an email is
\* given and differs from the stored one) leaves the user with is_verified
\* false; one that gives no email, or the email the user already has, leaves
\* is_verified as it was.
C27_EmailChangeUnverifies ==
    \A token \in AccessTokenShapes, reuse \in BOOLEAN,
       email \in Emails \cup {Unset}, username \in Usernames \cup {Unset} :
        LET r == update_current_user(token, reuse, email, username)
        IN (token.sub \in UserIds /\ r.response.status = 200) =>
              IF email # Unset /\ email # users[token.sub].email
              THEN /\ ~r.users[token.sub].is_verified
                   /\ r.users[token.sub].email = email
              ELSE r.users[token.sub].is_verified = users[token.sub].is_verified

\* The seeded user, who could only update its profile while verified, has
\* changed its email and is no longer verified.
C27_Witness ==
    /\ users[1].email # "a@x.com"
    /\ ~users[1].is_verified
    /\ users[1].deleted_at = Null

----------------------------------------------------------------------------
RefreshCalls == {k \in 1..Len(sdk.http) : sdk.http[k].path = RefreshPath}

\* One application call sends at most one refresh request, as its first HTTP
\* call, and at most two HTTP calls; no refresh runs inside a refresh.
C28_AtMostOneRefresh ==
    /\ Cardinality(RefreshCalls) <= 1
    /\ Len(sdk.http) <= 2
    /\ RefreshCalls # {} => sdk.http[1].path = RefreshPath
    /\ Cardinality({k \in 1..Len(sdk.stack) : sdk.stack[k].fn = "refresh_token"}) <= 1
    /\ Len(sdk.stack) <= 3

\* After the refresh of a call to another path has been answered with a token
\* that token is the stored one, and the original request, the second HTTP
\* call, carries its access token; such a call that returns has sent two.
C28_NewTokenUsed ==
    /\ (sdk.call # RefreshPath /\ Len(sdk.http) = 1 /\ RefreshCalls # {}
        /\ sdk.result = "running") =>
           /\ sdk.http[1].reply.token # None
           /\ sdk.token = sdk.http[1].reply.token
    /\ Len(sdk.http) = 2 =>
           /\ sdk.http[1].path = RefreshPath
           /\ sdk.http[2].path = sdk.call
           /\ sdk.http[2].path # RefreshPath
           /\ sdk.http[1].reply.token # None
           /\ sdk.http[2].authorization = sdk.http[1].reply.token.access_token
    /\ (sdk.result = "returned" /\ sdk.call # RefreshPath /\ RefreshCalls # {}) =>
           Len(sdk.http) = 2

\* A request to a path other than the refresh path, made while the stored
\* token expires in less than a minute, begins with a refresh; a request to
\* the refresh path never does.
C28_Trigger ==
    (/\ sdk.stack # << >>
     /\ Top.fn = "_request"
     /\ Top.pc = "check"
     /\ sdk'.stack # sdk.stack) =>
        /\ (/\ Top.path # RefreshPath
            /\ sdk.token # None
            /\ sdk.token_expires_at - sdk.clock < SdkMinute) =>
               /\ Len(sdk'.stack) = Len(sdk.stack) + 1
               /\ sdk'.stack[Len(sdk'.stack)].fn = "refresh_token"
               /\ sdk'.http = sdk.http
        /\ Top.path = RefreshPath =>
               /\ Len(sdk'.stack) = Len(sdk.stack)
               /\ sdk'.stack[Len(sdk'.stack)].pc = "send"

\* C28: while the client holds a token that expires in less than a minute, a
\* request to a path other than the refresh path first sends one refresh
\* request and, when that is answered with a token, stores the token and sends
\* the original request with its access token, two HTTP calls in all; the
\* refresh request starts no refresh of its own; and every call ends, having
\* sent at most one refresh request.  (A refresh that is refused raises, and
\* the original request is not sent.)
C28_AutoRefresh ==
    /\ [](C28_AtMostOneRefresh /\ C28_NewTokenUsed)
    /\ [][C28_Trigger]_vars
    /\ (sdk.result = "running") ~> (sdk.result # "running")

\* users.get_current_user has returned after two HTTP calls: the refresh,
\* sent with the old access token, and the request itself with the new one,
\* which is the stored token.
C28_Witness ==
    /\ sdk.result = "returned"
    /\ sdk.call = MePath
    /\ Len(sdk.http) = 2
    /\ sdk.http[1].path = RefreshPath
    /\ sdk.http[1].authorization # sdk.http[2].authorization
    /\ sdk.token = sdk.http[1].reply.token
    /\ sdk.http[2].authorization = sdk.token.access_token

----------------------------------------------------------------------------
\* C29: a Login that is not answered 200 (rate-limited, invalid credentials,
\* inactive user) returns no token and leaves the ledger, the users (every
\* last_login_at with them) and the access tokens issued as they were; and a
\* rate-limited pair is answered 429 even with the correct password of an
\* active user.
C29_FailedLoginIssuesNothing ==
    \A email \in Emails, password \in Passwords, ip_address \in IPs :
        LET r == login(email, password, ip_address)
        IN /\ r.response.status # 200 =>
                 /\ r.response.status \in {401, 429}
                 /\ r.response.access_token = None
                 /\ r.response.refresh_token = None
                 /\ r.refresh_tokens = refresh_tokens
                 /\ r.users = users
                 /\ r.access_tokens = access_tokens
           /\ Limited(email, ip_address) =>
                 /\ r.response.status = 429
                 /\ r.response.code = "RATE_LIMIT_EXCEEDED"

\* A pair of an active user has been refused while rate-limited (a failed row
\* beyond max_attempts inside the window) and is still limited; the user has
\* never logged in and the ledger is empty.
C29_Witness ==
    \E email \in Emails, ip_address \in IPs :
        /\ Limited(email, ip_address)
        /\ Cardinality(PairFailures(email, ip_address, now)) > max_attempts
        /\ \E password \in Passwords : ActiveWithPassword(email, password) # {}
        /\ \A i \in UserIds : users[i].last_login_at = Null
        /\ refresh_tokens = << >>

----------------------------------------------------------------------------
\* C30: Refresh given a signed, unexpired access token is answered 401
\* INVALID_REFRESH_TOKEN; logout, profile update, change password and delete
\* account given a signed, unexpired refresh token as bearer are answered 401
\* INVALID_TOKEN_TYPE (as is every request behind get_current_user) and leave
\* the users, the ledger, the login attempts and the cache as they were.
C30_TokenTypesNotInterchangeable ==
    /\ \A token \in AccessTokenShapes :
          decode_ok(token) =>
              LET r == refresh_token(token)
              IN /\ r.response.status = 401
                 /\ r.response.code = "INVALID_REFRESH_TOKEN"
                 /\ r.response.access_token = None
                 /\ r.refresh_tokens = refresh_tokens
    /\ \A raw \in RefreshTokenShapes, reuse \in BOOLEAN :
          decode_ok(raw) =>
              /\ authenticate("profile", raw, reuse, FALSE).error # None
              /\ authenticate("profile", raw, reuse, FALSE).error.code
                     = "INVALID_TOKEN_TYPE"
              /\ \A r \in {logout(raw, reuse), delete_current_user(raw, reuse)}
                        \cup {change_password(raw, reuse, c, n) :
                                 c \in Passwords, n \in Passwords}
                        \cup {update_current_user(raw, reuse, e, u) :
                                 e \in Emails \cup {Unset},
                                 u \in Usernames \cup {Unset}} :
                    /\ r.response.status = 401
                    /\ r.response.code = "INVALID_TOKEN_TYPE"
                    /\ r.users = users
                    /\ r.refresh_tokens = refresh_tokens
                    /\ r.login_attempts = login_attempts
                    /\ r.cache = cache

\* A logged-in, active user holds a refresh token that Refresh accepts and an
\* access token that has not expired.
C30_Witness ==
    \E k \in 1..Len(refresh_tokens) :
        LET raw == RawOf(refresh_tokens[k])
        IN /\ TokenLive(raw)
           /\ refresh_token(raw).response.status = 200
           /\ access_tokens[raw.sub] # Null
           /\ decode_ok([sub |-> raw.sub, type |-> "access",
                         iat |-> access_tokens[raw.sub],
                         exp |-> access_tokens[raw.sub] + ACCESS_TOKEN_EXPIRE_MINUTES])

----------------------------------------------------------------------------
\* The rows the SELECT of refresh_token returns, in every order it may return
\* them (it has no ORDER BY).
ScanOrders(user_id) ==
    LET rows == NonRevoked(refresh_tokens, user_id)
    IN {order \in [1..Cardinality(rows) -> rows] :
           \A a, b \in 1..Cardinality(rows) : order[a] = order[b] => a = b}

\* A scan that looks at the first row only.
scan_head(order, raw) ==
    /\ order # << >>
    /\ verify_password(raw, refresh_tokens[Head(order)].token_hash)
    /\ is_valid(refresh_tokens[Head(order)])

RECURSIVE scan(_, _)
\* for token in refresh_tokens: if verify_password(...): if token.is_valid:
\* token_valid = True; break
scan(order, raw) ==
    IF order = << >> THEN FALSE
    ELSE IF verify_password(raw, refresh_tokens[Head(order)].token_hash)
    THEN is_valid(refresh_tokens[Head(order)])
    ELSE scan(Tail(order), raw)

\* C31: for every refresh token and every order in which the non-revoked
\* records of its subject are scanned, the scan accepts exactly when one of
\* those records matches the token and is not expired (is_expired false); the
\* order makes no difference, and the handler's ledger step is that result.
C31_ScanIsExistence ==
    \A raw \in RefreshTokenShapes :
        LET exists == \E i \in NonRevoked(refresh_tokens, raw.sub) :
                          /\ verify_password(raw, refresh_tokens[i].token_hash)
                          /\ ~is_expired(refresh_tokens[i])
        IN /\ \A order \in ScanOrders(raw.sub) : scan(order, raw) = exists
           /\ token_valid(raw, raw.sub) = exists

\* A user holds two non-revoked records of the same raw token (two logins in
\* one tick) that a scan accepts, and has refreshed after its last login.
C31_Witness ==
    \E raw \in RefreshTokenShapes :
        /\ Cardinality({i \in NonRevoked(refresh_tokens, raw.sub) :
                           RawOf(refresh_tokens[i]) = raw}) >= 2
        /\ token_valid(raw, raw.sub)
        /\ decode_ok(raw)
        /\ access_tokens[raw.sub] # Null
        /\ access_tokens[raw.sub] > users[raw.sub].last_login_at

----------------------------------------------------------------------------
\* A Login answered 200 adds one record, of the user logged in, not revoked,
\* expiring after the refresh TTL and matching the token returned, after the
\* records there were, which it leaves as they are.
C32_AddsOneRecord ==
    \A email \in Emails, password \in Passwords, ip_address \in IPs :
        LET r == login(email, password, ip_address)
            new == r.refresh_tokens[Len(r.refresh_tokens)]
        IN r.response.status = 200 =>
              /\ Len(r.refresh_tokens) = Len(refresh_tokens) + 1
              /\ SubSeq(r.refresh_tokens, 1, Len(refresh_tokens)) = refresh_tokens
              /\ new.user_id = r.response.user
              /\ users[new.user_id].email = email
              /\ new.revoked_at = Null
              /\ new.expires_at = now + REFRESH_TOKEN_EXPIRE_DAYS
              /\ verify_password(r.response.refresh_token, new.token_hash)

\* The step of a Login answered 200.
C32_Step(email, password, ip_address) ==
    LET r == login(email, password, ip_address)
    IN /\ r.response.status = 200
       /\ refresh_tokens' = r.refresh_tokens
       /\ users' = r.users
       /\ login_attempts' = r.login_attempts
       /\ now' = now

\* After the step Refresh accepts the token the login returned and every
\* token it accepted before.
C32_Frame ==
    \A email \in Emails, password \in Passwords, ip_address \in IPs :
        C32_Step(email, password, ip_address) =>
            /\ (refresh_token(login(email, password, ip_address)
                                  .response.refresh_token).response.status = 200)'
            /\ \A raw \in RefreshTokenShapes :
                  refresh_token(raw).response.status = 200 =>
                      (refresh_token(raw).response.status = 200)'

\* C32: a successful Login adds exactly one refresh-token record (of the user
\* logging in, revoked_at null, expires_at = now + the refresh TTL) and leaves
\* every record there was unchanged; the tokens Refresh accepted before the
\* login it accepts after it, together with the new one, and a Refresh with
\* one of them leaves the ledger as it was.
C32_LoginAddsOneRecord ==
    /\ [](C32_AddsOneRecord
          /\ \A raw \in RefreshTokenShapes :
                refresh_token(raw).refresh_tokens = refresh_tokens)
    /\ [][C32_Frame]_vars

\* A user holds two different refresh tokens, from two logins, and Refresh
\* accepts both.
C32_Witness ==
    \E i, j \in 1..Len(refresh_tokens) :
        /\ refresh_tokens[i].user_id = refresh_tokens[j].user_id
        /\ RawOf(refresh_tokens[i]) # RawOf(refresh_tokens[j])
        /\ refresh_token(RawOf(refresh_tokens[i])).response.status = 200
        /\ refresh_token(RawOf(refresh_tokens[j])).response.status = 200

----------------------------------------------------------------------------
\* No step removes a user record or renumbers one, and none clears or moves a
\* deleted_at that is set.
C33_Step ==
    /\ Len(users') >= Len(users)
    /\ \A i \in UserIds :
          /\ users'[i].id = users[i].id
          /\ users[i].deleted_at # Null =>
                users'[i].deleted_at = users[i].deleted_at

\* C33: in every reachable state every user with deleted_at set has
\* is_active = false; user records are never removed, and deleted_at, once
\* set, stays as set.
C33_SoftDeleteKept ==
    /\ [](\A i \in UserIds : users[i].deleted_at # Null => ~users[i].is_active)
    /\ [][C33_Step]_vars

\* A user has been soft-deleted, beside one registered later who has not.
C33_Witness ==
    /\ Len(users) = 2
    /\ users[1].deleted_at # Null
    /\ ~users[1].is_active
    /\ users[2].deleted_at = Null
    /\ now > users[1].deleted_at

----------------------------------------------------------------------------
\* A login that runs alone is refused when its pair has max_attempts failed
\* rows in the window: it is answered 429 and does not verify the password.
C34_AloneDenied ==
    \A email \in Emails, password \in Passwords, ip_address \in IPs :
        Limited(email, ip_address) =>
            login(email, password, ip_address).response.status = 429

\* A login that writes after its reads while its pair has max_attempts failed
\* rows in the window passed its check before one of those rows was recorded:
\* another login of the pair recorded between its check and its write.
C34_FinishStep ==
    \A req \in pending :
        (/\ req.op = "login"
         /\ pending' = pending \ {req}
         /\ Limited(req.email, req.ip_address)) =>
            \E k \in (req.seen + 1)..Len(login_attempts) :
                /\ login_attempts[k].email = req.email
                /\ login_attempts[k].ip_address = req.ip_address
                /\ ~login_attempts[k].success

\* C34: the check and the recording are separate steps.  A login running
\* alone for a pair with max_attempts failed attempts in the window is
\* answered 429 without verifying the password; a login reaches verification
\* for such a pair only when another login of the pair recorded its failure
\* between this one's check and its own recording, and with such overlap more
\* than max_attempts logins of a pair fail verification inside one window.
C34_SoftRace == [](C34_AloneDenied) /\ [][C34_FinishStep]_vars

\* More than max_attempts logins of one pair were answered INVALID_CREDENTIALS,
\* so reached password verification, inside one window.
C34_Witness ==
    \E email \in Emails :
        LET failed == {k \in 1..Len(exchanges) :
                          /\ exchanges[k].request.op = "login"
                          /\ exchanges[k].request.email = email
                          /\ exchanges[k].response.code = "INVALID_CREDENTIALS"}
        IN /\ Cardinality(failed) > max_attempts
           /\ \A a, b \in failed :
                 exchanges[a].at - exchanges[b].at <= window_minutes

----------------------------------------------------------------------------
\* C35 as stated: in every reachable state, whatever the interleaving of
\* Login, Logout and Delete account requests, a soft-deleted user owns no
\* refresh-token record with revoked_at = null.
C35_DeletedOwnsNoLiveToken ==
    \A k \in 1..Len(refresh_tokens) :
        users[refresh_tokens[k].user_id].deleted_at # Null =>
            refresh_tokens[k].revoked_at # Null

----------------------------------------------------------------------------
\* C36: a Refresh answered 200 returns an access token whose sub is the sub
\* of the token presented, and a ledger record of that user that is not
\* revoked and not expired matches the token presented; every ledger record
\* belongs to the sub of the token it was stored for, so the token of one
\* user yields no access token of another.
C36_RefreshKeepsSubject ==
    /\ \A k \in 1..Len(refresh_tokens) :
          RawOf(refresh_tokens[k]).sub = refresh_tokens[k].user_id
    /\ \A raw \in RefreshTokenShapes \cup AccessTokenShapes \cup {Garbage} :
          LET r == refresh_token(raw)
          IN r.response.status = 200 =>
                /\ raw \in RefreshTokenShapes
                /\ r.response.access_token.type = "access"
                /\ r.response.access_token.sub = raw.sub
                /\ r.response.user = raw.sub
                /\ \A u \in UserIds \ {raw.sub} :
                      r.access_tokens[u] = access_tokens[u]
                /\ \E k \in 1..Len(refresh_tokens) :
                      /\ refresh_tokens[k].user_id = raw.sub
                      /\ refresh_tokens[k].revoked_at = Null
                      /\ ~is_expired(refresh_tokens[k])
                      /\ verify_password(raw, refresh_tokens[k].token_hash)

\* Two users hold refresh tokens that Refresh accepts, and the second has
\* refreshed after its login.
C36_Witness ==
    /\ Len(users) = 2
    /\ \E i, j \in 1..Len(refresh_tokens) :
          /\ refresh_tokens[i].user_id = 1
          /\ refresh_tokens[j].user_id = 2
          /\ refresh_token(RawOf(refresh_tokens[i])).response.status = 200
          /\ refresh_token(RawOf(refresh_tokens[j])).response.status = 200
    /\ access_tokens[2] # Null
    /\ access_tokens[2] > users[2].last_login_at

----------------------------------------------------------------------------
\* No step turns a stored is_verified from false to true.
C37_Step ==
    \A i \in UserIds : ~users[i].is_verified => ~users'[i].is_verified

\* An authenticated, active user whose stored is_verified is false is refused
\* change password, profile update and delete account with 403
\* EMAIL_NOT_VERIFIED.
C37_Refused ==
    \A token \in AccessTokenShapes, reuse \in BOOLEAN :
        StoredCaller(token, FALSE) =>
            \A r \in {delete_current_user(token, reuse)}
                      \cup {change_password(token, reuse, c, n) :
                               c \in Passwords, n \in Passwords}
                      \cup {update_current_user(token, reuse, e, u) :
                               e \in Emails \cup {Unset},
                               u \in Usernames \cup {Unset}} :
                /\ r.response.status = 403
                /\ r.response.code = "EMAIL_NOT_VERIFIED"

\* C37 as stated: no operation sets is_verified from false to true, so a
\* user whose is_verified is false (from registration or an email change)
\* stays so, and every later change-password, profile-update and
\* delete-account request of that user is refused with 403
\* EMAIL_NOT_VERIFIED.
C37_NeverVerifiedAgain == [](C37_Refused) /\ [][C37_Step]_vars

\* The first half alone.
C37_StaysFalse == [][C37_Step]_vars

----------------------------------------------------------------------------
\* Whatever the ledger holds (every record of the user revoked included), an
\* unexpired access token of a stored, active, non-deleted user passes
\* get_current_user in a request that reads the user from the table, and a
\* Logout of such a request is answered 200.
C38_StillAuthenticates ==
    \A token \in AccessTokenShapes :
        (/\ decode_ok(token)
         /\ token.sub \in UserIds
         /\ users[token.sub].is_active
         /\ users[token.sub].deleted_at = Null) =>
            /\ authenticate("logout", token, FALSE, FALSE).error = None
            /\ logout(token, FALSE).response.status = 200

\* The step of a Logout answered 200 invalidates no access token: a request
\* that passed get_current_user before it passes after it, and a Logout with
\* the same access token is then answered 200 again and leaves the ledger as
\* it is.
C38_LogoutStep ==
    (/\ users' = users
     /\ now' = now
     /\ login_attempts' = login_attempts
     /\ access_tokens' = access_tokens) =>
        \A token \in AccessTokenShapes, reuse \in BOOLEAN :
            (LET r == logout(token, reuse)
             IN /\ r.response.status = 200
                /\ refresh_tokens' = r.refresh_tokens
                /\ cache' = r.cache) =>
                /\ \A other \in AccessTokenShapes, again \in BOOLEAN :
                      authenticate("logout", other, again, FALSE).error = None =>
                          (authenticate("logout", other, again, FALSE).error = None)'
                /\ (logout(token, reuse).response.status = 200)'
                /\ (logout(token, reuse).refresh_tokens = refresh_tokens)'

\* C38: Logout does not invalidate access tokens: an access token that
\* authenticated its active, non-deleted user before a Logout authenticates
\* it after the Logout, whatever the ledger then holds, until the token
\* expires; the same token serves a second Logout, which is answered 200 and
\* revokes nothing.
C38_LogoutKeepsAccessToken ==
    [](C38_StillAuthenticates) /\ [][C38_LogoutStep]_vars

\* A user has logged out (its records are all revoked, none before its access
\* token was issued) and its access token has not expired.
C38_Witness ==
    \E i \in UserIds :
        /\ users[i].is_active
        /\ users[i].deleted_at = Null
        /\ access_tokens[i] # Null
        /\ now <= access_tokens[i] + ACCESS_TOKEN_EXPIRE_MINUTES
        /\ \E k \in 1..Len(refresh_tokens) : refresh_tokens[k].user_id = i
        /\ \A k \in 1..Len(refresh_tokens) :
              refresh_tokens[k].user_id = i =>
                  /\ refresh_tokens[k].revoked_at # Null
                  /\ refresh_tokens[k].revoked_at >= access_tokens[i]

----------------------------------------------------------------------------
\* The access-order list holds exactly the keys of the storage map, each once.
C39_Consistent ==
    /\ {lru._access_order[i] : i \in 1..Len(lru._access_order)} =
           DOMAIN lru._storage
    /\ Len(lru._access_order) = size(lru)

\* With max_size >= 1 the cache never holds more than max_size entries.
C39_Bounded == lru.max_size >= 1 => size(lru) <= lru.max_size

\* The position in the history of the last get hit or set of a stored key.
C39_LastTouch(key) ==
    LET at == {i \in 1..Len(lru.touched) : lru.touched[i] = key}
    IN IF at = {} THEN 0 ELSE CHOOSE i \in at : \A j \in at : j <= i

\* The step of a set of a new key into a full cache of max_size >= 1 removes
\* one stored key, one that no other stored key was touched before, and keeps
\* the others.
C39_EvictStep ==
    \A key \in CacheKeys, value \in CacheValues, ttl \in CacheTtls :
        (/\ lru.max_size >= 1
         /\ key \notin DOMAIN lru._storage
         /\ size(lru) >= lru.max_size
         /\ now' = now
         /\ lru' = [set(lru, key, value, ttl) EXCEPT
                       !.touched = Append(@, key)]) =>
            \E victim \in DOMAIN lru._storage :
                /\ \A k \in DOMAIN lru._storage :
                      C39_LastTouch(victim) <= C39_LastTouch(k)
                /\ DOMAIN lru'._storage =
                       ((DOMAIN lru._storage) \ {victim}) \cup {key}
                /\ \A k \in (DOMAIN lru._storage) \ {victim} :
                      lru'._storage[k] = lru._storage[k]

\* C39: after any sequence of get, set, delete and clear the access-order list
\* of an InMemoryCache holds exactly the keys of its storage map, each once;
\* with max_size >= 1 the number of entries never exceeds max_size; and when a
\* new key is set into a full cache the entry evicted is the one least
\* recently touched by a get hit or a set.
C39_CacheConsistent ==
    [](C39_Consistent /\ C39_Bounded) /\ [][C39_EvictStep]_vars

\* In a cache of max_size 2, k1 and k2 were set, a get hit k1, and the set of
\* k3 then evicted k2.
C39_Witness ==
    /\ lru.max_size = 2
    /\ lru.touched = <<"k1", "k2", "k1", "k3">>
    /\ lru._access_order = <<"k1", "k3">>
    /\ DOMAIN lru._storage = {"k1", "k3"}

====
